---- MODULE Spec2Model ----
(***************************************************************************)
(* A model of s4: layered build settings (cmake.rs, config.rs,             *)
(* platform.rs, project.rs), the workspace / build context store kept in   *)
(* marker files on disk (workspace.rs, util.rs) and the machine-queue      *)
(* matcher (app.rs).                                                       *)
(*                                                                         *)
(* Specifications:                                                         *)
(*   SpecMerge    Setting::merge applied to a Setting, layer after layer   *)
(*   SpecValidate Flag::validate and Config::check_setting                 *)
(*   SpecResolve  Config::platform_setting                                 *)
(*   Spec         the workspace / build store on a small filesystem        *)
(*   SpecConc     concurrent BuildContext::create, file operation by file  *)
(*                operation                                                *)
(*   SpecBuild    a loaded workspace: builds created, loaded, changed and  *)
(*                configured through Project::cmake                        *)
(*   SpecSupported Config::platform_setting for every architecture, on     *)
(*                platforms of every supported-architectures set           *)
(*   SpecOverride Config::merge of an override document over a base        *)
(*   SpecFind     find_context, turn by turn of its loop                   *)
(*   SpecMatch    Apps::machine_queue_match_system on an inventory         *)
(*   SpecRun      Project::mq_run, external run by external run            *)
(*   SpecArch     Sel4Architecture read from and written as text           *)
(*                                                                         *)
(* The specifications of the store (Spec, SpecConc, SpecBuild) run with    *)
(* either serializer of the toml crate, see TomlCrates.                    *)
(***************************************************************************)
EXTENDS Integers, Sequences, FiniteSets, TLC

VARIABLES
    config,   \* the Config, immutable after load
    setting,  \* the Setting a caller holds and merges layers into
    fs,       \* the filesystem: path -> node
    wctx,     \* the WorkspaceContext the caller holds (or NoContext)
    bctx,     \* the BuildContext the caller holds (or NoContext)
    ret,      \* the last call: its name, arguments and result
    calls,    \* the number of calls made on the store
    procs,    \* the concurrent invocations: each one's position and locals
    inventory, \* the machine queue's reports: its systems and its pools
    toml      \* the toml crate the program is linked with, by what its
              \* serializer does with a variant of an enum

vars == <<config, setting, fs, wctx, bctx, ret, calls, procs, inventory, toml>>

----------------------------------------------------------------------------
(* Bounds of the model. *)

\* number of distinct Text payloads drawn for flag values
NumTexts == 1

TextPool == <<"a", "b", "c">>

Texts == {TextPool[i] : i \in 1..NumTexts}

----------------------------------------------------------------------------
(* cmake.rs: Value, Setting. *)

\* enum Value { Boolean(bool), Text(String) }; the bool payload is written
\* "true" / "false" so that payloads of both variants are strings.
Boolean(b) == [tag |-> "Boolean", val |-> IF b THEN "true" ELSE "false"]

Text(s) == [tag |-> "Text", val |-> s]

Values == {Boolean(TRUE), Boolean(FALSE)} \cup {Text(t) : t \in Texts}

PLATFORM_FLAG == "platform"

KERNEL_PLATFORM_FLAG == "kernel-platform"

\* A Setting is a BTreeMap<FlagId, Value>: a function on a finite set of ids.
EmptySetting == [f \in {} |-> Boolean(FALSE)]

SettingsOver(flagIds, values) == UNION {[D -> values] : D \in SUBSET flagIds}

\* Setting::flag: the value of a flag, Boolean(false) when it is not set.
SettingFlag(s, flag) == IF flag \in DOMAIN s THEN s[flag] ELSE Boolean(FALSE)

\* Setting::set_text / set_bool: BTreeMap::insert, replacing an old entry.
SetValue(s, flag, value) ==
    [f \in DOMAIN s \cup {flag} |-> IF f = flag THEN value ELSE s[f]]

SetText(s, flag, text) == SetValue(s, flag, Text(text))

SetBool(s, flag, b) == SetValue(s, flag, Boolean(b))

\* Setting::set_platform
SetPlatformIfUnset(s, platform) ==
    IF PLATFORM_FLAG \in DOMAIN s THEN s ELSE SetText(s, PLATFORM_FLAG, platform)

SetPlatform(s, platform) == SetText(s, PLATFORM_FLAG, platform)

SetKernelPlatform(s, platform) == SetText(s, KERNEL_PLATFORM_FLAG, platform)

----------------------------------------------------------------------------
(* config.rs: the Merge trait and its implementations. *)

\* impl<T: MergeId> Merge for T: other replaces self.
MergeId(self, other) == other

\* impl Merge for Option<T>: other replaces self only when it is Some.
None == [some |-> FALSE]

Some(v) == [some |-> TRUE, val |-> v]

MergeOption(self, other) == IF other.some THEN other ELSE self

\* impl Merge for BTreeSet<T>: every element of other is inserted.
MergeBTreeSet(self, other) == self \cup other

\* impl Merge for BTreeMap<K, T>, at a T that is MergeId (Value): a key of
\* other that self has is merged value by value, a key self lacks is
\* inserted.
MergeBTreeMap(self, other) ==
    [k \in DOMAIN self \cup DOMAIN other |->
        IF k \in DOMAIN other
        THEN IF k \in DOMAIN self THEN MergeId(self[k], other[k]) ELSE other[k]
        ELSE self[k]]

\* impl Merge for Setting: the merge of the underlying maps of Values.
MergeSettingToggle(self, other) ==
    [k \in (DOMAIN self \ DOMAIN other) \cup (DOMAIN other \ DOMAIN self) |->
        IF k \in DOMAIN other THEN other[k] ELSE self[k]]

MergeSettingKeepSelf(self, other) ==
    [k \in DOMAIN self \cup DOMAIN other |->
        IF k \in DOMAIN self THEN self[k] ELSE other[k]]

MergeSettingIntoEmpty(self, other) ==
    IF other = EmptySetting THEN other ELSE MergeBTreeMap(self, other)

MergeSetting(self, other) == MergeBTreeMap(self, other)

EmptyMap == [k \in {} |-> None]

----------------------------------------------------------------------------
(* cmake.rs: Requirement, Flag, Flag::validate. *)

\* enum Requirement { ReqSingle(Value), ReqAny(BTreeSet<Value>) }
ReqSingle(v) == [kind |-> "Single", value |-> v]

ReqAny(vs) == [kind |-> "Any", values |-> vs]

\* Requirement::check: equal to the single value, or a member of the set.
RequirementCheck(requirement, value) ==
    IF requirement.kind = "Single"
    THEN value = requirement.value
    ELSE value \in requirement.values

\* struct Flag: the description is carried in no decision and left out;
\* requires is a set of maps FlagId -> Requirement.
Flag(variable, requires) == [variable |-> variable, requires |-> requires]

\* Flag::check_requirements: some map of requires has every requirement met
\* by the Setting's value of its flag.
CheckRequirementsAbsentMet(flag, s) ==
    IF \E required \in flag.requires :
           \A dep \in DOMAIN required :
               dep \notin DOMAIN s \/ RequirementCheck(required[dep], s[dep])
    THEN "Ok" ELSE "Unsatisfied"

CheckRequirements(flag, s) ==
    IF \E required \in flag.requires :
           \A dep \in DOMAIN required :
               RequirementCheck(required[dep], SettingFlag(s, dep))
    THEN "Ok" ELSE "Unsatisfied"

\* Flag::validate: a flag without requirements takes any value; one with
\* requirements takes true when they are met, false always, no Text.
Validate(flag, s, value) ==
    IF Cardinality(flag.requires) > 0
    THEN CASE value = Boolean(TRUE) -> CheckRequirements(flag, s)
           [] value = Boolean(FALSE) -> "Ok"
           [] OTHER -> "InvalidValue"
    ELSE "Ok"

----------------------------------------------------------------------------
(* config.rs: Config::check_setting. *)

\* BTreeMap iteration is in the order of the keys (byte order of the ids).
FlagOrder == <<"F", KERNEL_PLATFORM_FLAG, "mcs", PLATFORM_FLAG, "x", "y">>

FlagIds == {FlagOrder[i] : i \in 1..Len(FlagOrder)}

FlagIndex(id) == CHOOSE i \in 1..Len(FlagOrder) : FlagOrder[i] = id

\* the entries of the Setting whose validation fails
Rejected(cfg, s) ==
    {id \in DOMAIN s \cap DOMAIN cfg.flags :
        Validate(cfg.flags[id], s, s[id]) # "Ok"}

\* Config::check_setting: the error of the first entry, in key order, that
\* is in the catalog and fails to validate; Ok when there is none.
CheckSettingUnknownFails(cfg, s) ==
    IF DOMAIN s \subseteq DOMAIN cfg.flags /\ Rejected(cfg, s) = {}
    THEN "Ok" ELSE "Unsatisfied"

CheckSetting(cfg, s) ==
    LET bad == Rejected(cfg, s)
    IN IF bad = {} THEN "Ok"
       ELSE LET first == CHOOSE id \in bad :
                            \A o \in bad : FlagIndex(id) <= FlagIndex(o)
            IN Validate(cfg.flags[first], s, s[first])

----------------------------------------------------------------------------
(* platform.rs, project.rs, config.rs: Config::platform_setting. *)

\* enum Sel4Architecture, by the token each variant prints as
Sel4Architectures ==
    {"aarch32", "aarch64", "riscv32", "riscv64", "ia32", "x86_64"}

\* struct Variation
Variation(s) == [setting |-> s]

\* struct Platform
Platform(architectures, variations, s) ==
    [architectures |-> architectures, variations |-> variations, setting |-> s]

\* struct Project: the fields that carry no Setting are left out here
Project(s) == [setting |-> s]

\* Result<T>
Ok(v) == [ok |-> TRUE, val |-> v]

Err(e) == [ok |-> FALSE, err |-> e]

\* Config::platform_setting: the platform's name under both platform
\* flags, then the Settings of the platform, of the variation (after its
\* name replaced the platform flag), of the architecture when the table has
\* it, and of the project, each merged over the ones before.
PlatformSettingProjectFirst(cfg, project, platform, variation, arch) ==
    IF project \notin DOMAIN cfg.projects THEN Err("NoSuchProject")
    ELSE IF platform \notin DOMAIN cfg.platforms THEN Err("NoSuchPlatform")
    ELSE
    LET plat == cfg.platforms[platform]
        s0 == MergeSetting(cfg.projects[project].setting,
                SetPlatform(SetKernelPlatform(EmptySetting, platform), platform))
        s1 == MergeSetting(s0, plat.setting)
    IN IF variation.some /\ variation.val \notin DOMAIN plat.variations
       THEN Err("NoSuchVariation")
       ELSE
       LET s2 == IF variation.some
                 THEN MergeSetting(SetPlatform(s1, variation.val),
                                   plat.variations[variation.val].setting)
                 ELSE s1
           s3 == IF arch \in DOMAIN cfg.architectures
                 THEN MergeSetting(s2, cfg.architectures[arch])
                 ELSE s2
       IN Ok(s3)

\* with Platform::check_architecture called on the platform found
PlatformSettingChecked(cfg, project, platform, variation, arch) ==
    IF platform \in DOMAIN cfg.platforms
         /\ arch \notin cfg.platforms[platform].architectures
    THEN Err("Unsupported")
    ELSE IF platform \notin DOMAIN cfg.platforms THEN Err("NoSuchPlatform")
    ELSE
    LET plat == cfg.platforms[platform]
        s0 == SetPlatform(SetKernelPlatform(EmptySetting, platform), platform)
        s1 == MergeSetting(s0, plat.setting)
    IN IF variation.some /\ variation.val \notin DOMAIN plat.variations
       THEN Err("NoSuchVariation")
       ELSE
       LET s2 == IF variation.some
                 THEN MergeSetting(SetPlatform(s1, variation.val),
                                   plat.variations[variation.val].setting)
                 ELSE s1
           s3 == IF arch \in DOMAIN cfg.architectures
                 THEN MergeSetting(s2, cfg.architectures[arch])
                 ELSE s2
       IN IF project \notin DOMAIN cfg.projects
          THEN Err("NoSuchProject")
          ELSE Ok(MergeSetting(s3, cfg.projects[project].setting))

PlatformSetting(cfg, project, platform, variation, arch) ==
    IF platform \notin DOMAIN cfg.platforms THEN Err("NoSuchPlatform")
    ELSE
    LET plat == cfg.platforms[platform]
        s0 == SetPlatform(SetKernelPlatform(EmptySetting, platform), platform)
        s1 == MergeSetting(s0, plat.setting)
    IN IF variation.some /\ variation.val \notin DOMAIN plat.variations
       THEN Err("NoSuchVariation")
       ELSE
       LET s2 == IF variation.some
                 THEN MergeSetting(SetPlatform(s1, variation.val),
                                   plat.variations[variation.val].setting)
                 ELSE s1
           s3 == IF arch \in DOMAIN cfg.architectures
                 THEN MergeSetting(s2, cfg.architectures[arch])
                 ELSE s2
       IN IF project \notin DOMAIN cfg.projects
          THEN Err("NoSuchProject")
          ELSE Ok(MergeSetting(s3, cfg.projects[project].setting))

----------------------------------------------------------------------------
(* The filesystem: std::fs and std::path as workspace.rs and util.rs use   *)
(* them. A path is the sequence of its components below the root; a        *)
(* relative path may hold ".." components.                                 *)

\* the directories the model knows: a workspace root w with two build
\* directories inside it (one with an images directory, as a finished
\* build has), and a sibling directory o
Paths ==
    {<<>>, <<"w">>, <<"w", "b1">>, <<"w", "b1", "images">>, <<"w", "b2">>,
     <<"o">>}

\* a node: nothing, a directory with its files (name -> content) and the
\* names of its subdirectories outside Paths, or a file
Absent == [kind |-> "none", files |-> EmptyMap, subdirs |-> {}]

EmptyDir == [kind |-> "dir", files |-> EmptyMap, subdirs |-> {}]

PlainFile == [kind |-> "file", files |-> EmptyMap, subdirs |-> {}]

\* Path::exists, Path::is_dir
Exists(f, p) == p \in Paths /\ f[p].kind # "none"

IsDir(f, p) == p \in Paths /\ f[p].kind = "dir"

IsPrefix(q, p) == Len(q) <= Len(p) /\ SubSeq(p, 1, Len(q)) = q

Children(f, p) ==
    {q \in Paths : Len(q) = Len(p) + 1 /\ IsPrefix(p, q) /\ f[q].kind # "none"}

\* read_dir(p)?.count(): the entries of a directory
ReadDirCount(f, p) ==
    Cardinality(Children(f, p)) + Cardinality(DOMAIN f[p].files)
        + Cardinality(f[p].subdirs)

\* usize as little-endian 16-bit limbs, so that `!` (bitwise not on usize)
\* keeps its width
USIZE_LIMBS == 4

LIMB_MAX == 65535

Usize(n) == [i \in 1..USIZE_LIMBS |-> IF i = 1 THEN n ELSE 0]

UsizeNot(u) == [i \in 1..USIZE_LIMBS |-> LIMB_MAX - u[i]]

\* `!read_dir(&root)?.count() != 0`: unary ! binds tighter than !=, and on
\* a usize it is the bitwise complement
NotCountIsNonZero(count) == UsizeNot(Usize(count)) # Usize(0)

\* create_dir_all: the directory and its missing ancestors; it fails when
\* a component of the path is a file
CreateDirAll(f, p) ==
    IF \E k \in 0..Len(p) : f[SubSeq(p, 1, k)].kind = "file"
    THEN Err("Io")
    ELSE Ok([q \in Paths |->
                IF IsPrefix(q, p) /\ f[q].kind = "none" THEN EmptyDir ELSE f[q]])

\* create_dir_all(dir/name) for a subdirectory outside Paths: dir and its
\* missing ancestors are made as well; it fails when a component of the
\* path, dir/name included, is a file
CreateSubdir(f, dir, name) ==
    LET made == CreateDirAll(f, dir)
    IN IF ~made.ok THEN made
       ELSE IF name \in DOMAIN made.val[dir].files THEN Err("Io")
       ELSE Ok([made.val EXCEPT ![dir].subdirs = @ \cup {name}])

\* File::create(dir/name)?.write(content): the file is created or truncated
\* and written; it fails when dir is no directory
WriteFile(f, dir, name, content) ==
    IF ~IsDir(f, dir) \/ name \in f[dir].subdirs THEN Err("Io")
    ELSE Ok([f EXCEPT ![dir].files =
                [n \in DOMAIN @ \cup {name} |-> IF n = name THEN content ELSE @[n]]])

\* util.rs relative_path: both paths canonicalized (they must exist), the
\* common leading components dropped, one ".." for each component left of
\* from, then the components left of to
CommonLen(from, to) ==
    CHOOSE k \in 0..Len(from) :
        /\ k <= Len(to)
        /\ SubSeq(from, 1, k) = SubSeq(to, 1, k)
        /\ (k < Len(from) /\ k < Len(to)) => from[k + 1] # to[k + 1]

\* relative_path without the ".." components for what is left of from
RelativePathNoParents(f, from, to) ==
    IF ~Exists(f, to) \/ ~Exists(f, from) THEN Err("Io")
    ELSE Ok(SubSeq(to, CommonLen(from, to) + 1, Len(to)))

RelativePath(f, from, to) ==
    IF ~Exists(f, to) \/ ~Exists(f, from) THEN Err("Io")
    ELSE LET k == CommonLen(from, to)
         IN Ok([i \in 1..(Len(from) - k) |-> ".."] \o SubSeq(to, k + 1, Len(to)))

\* PathBuf::push of a relative path, as the filesystem resolves the result
RECURSIVE Join(_, _)
Join(base, rel) ==
    IF rel = <<>> THEN base
    ELSE IF Head(rel) = ".."
         THEN Join(IF base = <<>> THEN base ELSE SubSeq(base, 1, Len(base) - 1),
                   Tail(rel))
         ELSE Join(Append(base, Head(rel)), Tail(rel))

\* a relative path opened from the directory base, as the filesystem
\* resolves it: every component on the way must be an existing directory
RECURSIVE ResolveDir(_, _, _)
ResolveDir(f, base, rel) ==
    IF ~IsDir(f, base) THEN Err("Io")
    ELSE IF rel = <<>> THEN Ok(base)
    ELSE IF Head(rel) = ".."
         THEN ResolveDir(f, IF base = <<>> THEN base
                            ELSE SubSeq(base, 1, Len(base) - 1), Tail(rel))
         ELSE ResolveDir(f, Append(base, Head(rel)), Tail(rel))

\* Path::exists on base pushed with a relative path that ends in a name
ExistsFrom(f, base, rel) ==
    /\ rel # <<>>
    /\ LET dir == ResolveDir(f, base, SubSeq(rel, 1, Len(rel) - 1))
       IN dir.ok /\ Exists(f, Append(dir.val, rel[Len(rel)]))

----------------------------------------------------------------------------
(* workspace.rs: Workspace, Build and the marker files. *)

WORKSPACE_FILENAME == ".s4-workspace.toml"

BUILD_FILENAME == ".s4-build.toml"

CACHE_SUBDIR == ".sel4_cache"

\* struct Workspace
Workspace(project, builds) == [project |-> project, builds |-> builds]

\* struct WorkspaceContext
WorkspaceContext(workspace, root) ==
    [kind |-> "workspace", workspace |-> workspace, workspace_root |-> root]

\* Build::new
Build(root, platform, variation, architecture, s) ==
    [workspace_root |-> root, platform |-> platform, variation |-> variation,
     architecture |-> architecture, setting |-> s]

\* struct BuildContext
BuildContext(workspace, build, root) ==
    [kind |-> "build", workspace |-> workspace, build |-> build,
     build_root |-> root]

\* A TOML document is the sequence of its <<key, value>> entries; a value is
\* a string, an array of strings (kept as the set it is written from and
\* read into), or a table with one key.
DocString(str) == [type |-> "string", str |-> str]

\* a bare TOML boolean, written true / false
DocBoolean(str) == [type |-> "boolean", str |-> str]

DocArray(strs) == [type |-> "array", strs |-> strs]

DocTable(key, val) == [type |-> "table", key |-> key, val |-> val]

\* The toml crate the program is linked with. util.rs calls toml::to_vec,
\* and the releases of the crate differ in what their serializer does with
\* a newtype variant of an enum (serialize_newtype_variant): "variants"
\* writes it as a table with one key, the variant's name; "unsupported"
\* returns Error::UnsupportedType, as the releases up to 0.5 do.
TomlCrates == {"variants", "unsupported"}

\* derive(Serialize) on enum Value hands the serializer a newtype variant,
\* Boolean(..) or Text(..)
SerializeValue(lib, v) ==
    IF lib = "unsupported" THEN Err("UnsupportedType")
    ELSE Ok(DocTable(v.tag, v.val))

\* the entries of a Setting in key order (serde(flatten) over the
\* BTreeMap); the first entry the serializer refuses ends the serialization
RECURSIVE SerializeSettingFrom(_, _, _)
SerializeSettingFrom(lib, s, i) ==
    IF i > Len(FlagOrder) THEN Ok(<<>>)
    ELSE IF FlagOrder[i] \notin DOMAIN s THEN SerializeSettingFrom(lib, s, i + 1)
    ELSE LET value == SerializeValue(lib, s[FlagOrder[i]])
             rest == SerializeSettingFrom(lib, s, i + 1)
         IN IF ~value.ok THEN value
            ELSE IF ~rest.ok THEN rest
            ELSE Ok(<<<<FlagOrder[i], value.val>>>> \o rest.val)

SerializeSetting(lib, s) == SerializeSettingFrom(lib, s, 1)

\* derive(Serialize) on Workspace, kebab-case: a string and an array of
\* strings, which every serializer writes
SerializeWorkspace(w) ==
    <<<<"project", DocString(w.project)>>, <<"builds", DocArray(w.builds)>>>>

\* derive(Serialize) on Build: the renamed fields, build-variation skipped
\* when None, then the flattened Setting
SerializeBuild(lib, b) ==
    LET flags == SerializeSetting(lib, b.setting)
    IN IF ~flags.ok THEN flags
       ELSE Ok(<<<<"workspace-root", DocString(b.workspace_root)>>,
                 <<"build-platform", DocString(b.platform)>>>> \o
               (IF b.variation.some
                THEN <<<<"build-variation", DocString(b.variation.val)>>>>
                ELSE <<>>) \o
               <<<<"build-architecture", DocString(b.architecture)>>>> \o
               flags.val)

\* bytes a write left behind the document that was written over them: the
\* last len bytes of the file as it was, which held the marker `of`
DocStale(len, of) == [type |-> "bytes", len |-> len, of |-> of]

\* the length in bytes of a name, and of a path written with separators
TextLen(str) ==
    CASE str \in {"w", "o"} -> 1
      [] str \in {"b1", "b2", "j1", ".."} -> 2
      [] str = "images" -> 6

RECURSIVE PathLen(_)
PathLen(path) ==
    IF path = <<>> THEN 0
    ELSE IF Len(path) = 1 THEN TextLen(path[1])
    ELSE TextLen(path[1]) + 1 + PathLen(Tail(path))

\* the bytes of the elements of an array as toml::to_vec writes them:
\* "a", "b"
RECURSIVE ElementsSize(_)
ElementsSize(strs) ==
    IF strs = {} THEN 0
    ELSE LET e == CHOOSE e \in strs : TRUE
         IN PathLen(e) + 2 + (IF strs = {e} THEN 0 ELSE 2)
            + ElementsSize(strs \ {e})

\* the keys of a Workspace marker, each with the texts its line starts
\* with when 0, 1, 2, .. bytes are missing from the start of the key
KeySuffixes ==
    [project |-> <<"project", "roject", "oject", "ject", "ect", "ct", "t">>,
     builds |-> <<"builds", "uilds", "ilds", "lds", "ds", "s">>]

KeyLen(key) == Len(KeySuffixes[key])

\* the bytes of the line toml::to_vec writes for an entry of a Workspace:
\* key = "str" or key = [..], and the line end
EntrySize(entry) ==
    KeyLen(entry[1]) + 6
        + (CASE entry[2].type = "string" -> TextLen(entry[2].str)
             [] entry[2].type = "array" -> ElementsSize(entry[2].strs))

\* the bytes of a Workspace marker file: the lines of its entries and the
\* stale bytes behind them
RECURSIVE WorkspaceSize(_)
WorkspaceSize(doc) ==
    IF doc = <<>> THEN 0
    ELSE (IF doc[1][2].type = "bytes" THEN doc[1][2].len
          ELSE EntrySize(doc[1]))
         + WorkspaceSize(Tail(doc))

\* A marker file is read as its lines. A line is the entry it was written
\* from and the number of bytes missing from its start (0 for a line the
\* last write wrote; stale bytes begin anywhere in a line of an earlier
\* write).
\* what the TOML parser takes a line for. A whole line is key = value, or
\* the header of the table a Value is written as. Of a line cut short:
\* with a part of its key left it is that shorter key = value; with the line
\* end alone left it is an empty line; an array of one string, cut up to
\* its bracket, is the table header ["string"] (white space before it is
\* skipped); every other rest is no TOML
LineKind(entry, cut) ==
    IF cut = 0 THEN (IF entry[2].type = "table" THEN "table" ELSE "key")
    ELSE IF cut < KeyLen(entry[1]) THEN "key"
    ELSE IF cut = EntrySize(entry) - 1 THEN "blank"
    ELSE IF /\ entry[2].type = "array"
            /\ Cardinality(entry[2].strs) = 1
            /\ cut \in {KeyLen(entry[1]) + 2, KeyLen(entry[1]) + 3}
    THEN "table"
    ELSE "bad"

\* the key a key = value line defines
LineKey(entry, cut) ==
    IF cut = 0 THEN entry[1] ELSE KeySuffixes[entry[1]][cut + 1]

\* the name of the table a header line opens, as the sequence of its path
\* components
LineTable(entry, cut) ==
    IF cut = 0 THEN <<entry[1]>> ELSE CHOOSE e \in entry[2].strs : TRUE

\* a line as the parser reads it
Line(entry, cut) ==
    [entry |-> entry, cut |-> cut, kind |-> LineKind(entry, cut),
     key |-> IF LineKind(entry, cut) = "key" THEN LineKey(entry, cut) ELSE "",
     table |-> IF LineKind(entry, cut) = "table"
               THEN LineTable(entry, cut) ELSE <<>>]

\* the last n bytes of a file given as its lines
RECURSIVE LastBytes(_, _)
LastBytes(lines, n) ==
    IF n <= 0 \/ lines = <<>> THEN <<>>
    ELSE LET last == lines[Len(lines)]
             size == EntrySize(last.entry) - last.cut
         IN IF n >= size
            THEN Append(LastBytes(SubSeq(lines, 1, Len(lines) - 1), n - size),
                        last)
            ELSE <<Line(last.entry, last.cut + (size - n))>>

RECURSIVE FileLines(_)
FileLines(doc) ==
    IF doc = <<>> THEN <<>>
    ELSE (IF doc[1][2].type = "bytes"
          THEN LastBytes(FileLines(doc[1][2].of), doc[1][2].len)
          ELSE <<Line(doc[1], 0)>>) \o FileLines(Tail(doc))

\* the table a line belongs to: the number of table headers before it (a
\* key after a header belongs to its table, 0 is the top-level table)
LineScope(lines, i) ==
    Cardinality({j \in 1..(i - 1) : lines[j].kind = "table"})

\* the parser's pass over the lines: a line that is no TOML, a key defined
\* twice in a table, a table opened twice and a table opened under the
\* name of a top-level key fail
LinesParse(lines) ==
    /\ \A i \in 1..Len(lines) : lines[i].kind # "bad"
    /\ \A i \in 1..Len(lines) : \A j \in (i + 1)..Len(lines) :
          /\ (/\ lines[i].kind = "key"
              /\ lines[j].kind = "key"
              /\ lines[i].key = lines[j].key)
                => LineScope(lines, i) # LineScope(lines, j)
          /\ (lines[i].kind = "table" /\ lines[j].kind = "table")
                => lines[i].table # lines[j].table
          /\ (/\ lines[i].kind = "key"
              /\ lines[j].kind = "table"
              /\ <<lines[i].key>> = lines[j].table)
                => LineScope(lines, i) # 0

\* the entries of the top-level table: the keys before the first table
\* header, and the tables written as a Value
TopEntries(lines) ==
    LET tables == {i \in 1..Len(lines) : lines[i].kind = "table"}
        IsKey(line) == line.kind = "key"
        IsValue(line) == line.kind = "table" /\ line.cut = 0
        first == IF tables = {} THEN Len(lines) + 1
                 ELSE CHOOSE i \in tables : \A j \in tables : i <= j
        top == SelectSeq(SubSeq(lines, 1, first - 1), IsKey)
               \o SelectSeq(lines, IsValue)
    IN [k \in 1..Len(top) |->
           <<IF top[k].kind = "key" THEN top[k].key ELSE top[k].entry[1],
             top[k].entry[2]>>]

\* the tables that stale bytes open
StaleTables(lines) ==
    {lines[i].table :
        i \in {j \in 1..Len(lines) : lines[j].cut > 0 /\ lines[j].kind = "table"}}

\* the top-level table of parsed lines, its entries in `entries` and the
\* names of the tables left by stale bytes in `tables`
ParsedLines(lines) ==
    IF ~LinesParse(lines) THEN Err("Parse")
    ELSE Ok([entries |-> TopEntries(lines), tables |-> StaleTables(lines)])

\* let v = value; Then(v): the value is computed once and what follows
\* works on it
Bind(value, Then(_)) == CHOOSE result \in {Then(v) : v \in {value}} : TRUE

\* toml::from_slice up to the typed value: the bytes of the file are read
\* as lines and parsed
TomlParse(doc) == Bind(FileLines(doc), ParsedLines)

DocKeys(doc) == {doc[i][1] : i \in 1..Len(doc)}

DocGet(doc, key) == doc[CHOOSE i \in 1..Len(doc) : doc[i][1] = key][2]

\* derive(Deserialize) on Workspace over the parsed table: both fields are
\* required, entries under other keys are passed over
WorkspaceOf(parsed) ==
    LET top == parsed.val.entries
    IN IF ~parsed.ok THEN parsed
       ELSE IF /\ "project" \in DocKeys(top) /\ "builds" \in DocKeys(top)
               /\ DocGet(top, "project").type = "string"
               /\ DocGet(top, "builds").type = "array"
       THEN Ok(Workspace(DocGet(top, "project").str, DocGet(top, "builds").strs))
       ELSE Err("Parse")

\* toml::from_slice::<Workspace>: the file is parsed once, then typed
DeserializeWorkspace(doc) == Bind(TomlParse(doc), WorkspaceOf)

\* impl Deserialize for Value: deserialize_any with ValueVisitor, which
\* visits booleans and strings (and numbers) and has no visit_map or
\* visit_seq, so a table or an array is an invalid type
DeserializeValue(d) ==
    IF d.type = "boolean" THEN Ok([tag |-> "Boolean", val |-> d.str])
    ELSE IF d.type = "string" THEN Ok(Text(d.str))
    ELSE Err("Parse")

\* impl FromStr for Sel4Architecture, to the variant of the enum
FromStr(string) ==
    IF string = "riscv32" THEN Ok("RiscV32")
    ELSE IF string = "riscv64" THEN Ok("RiscV64")
    ELSE IF string = "aarch32" THEN Ok("AArch32")
    ELSE IF string = "arm_hyp" THEN Ok("AArch32")
    ELSE IF string = "aarch64" THEN Ok("AArch64")
    ELSE IF string = "x86_64" THEN Ok("X86_64")
    ELSE IF string = "ia32" THEN Ok("Ia32")
    ELSE Err("Parse")

\* impl fmt::Display for Sel4Architecture
Display(arch) ==
    CASE arch = "RiscV64" -> "riscv64"
      [] arch = "RiscV32" -> "riscv32"
      [] arch = "X86_64" -> "x86_64"
      [] arch = "Ia32" -> "ia32"
      [] arch = "AArch32" -> "aarch32"
      [] arch = "AArch64" -> "aarch64"

\* serde(try_from = "String") for Sel4Architecture; the model of the store
\* names a variant by the token it prints as
Sel4ArchitectureFromStr(string) ==
    IF FromStr(string).ok THEN Ok(Display(FromStr(string).val))
    ELSE Err("Parse")

\* the keys of struct Build that derive(Deserialize) takes for its own
\* fields; every other entry goes to the flattened Setting
BuildFields ==
    {"workspace-root", "build-platform", "build-variation",
     "build-architecture"}

\* derive(Deserialize) on Build over the parsed table: the three plain
\* fields are required strings, build-variation may be missing, and every
\* remaining entry, a table left by stale bytes included, must deserialize
\* as a Value
BuildOf(parsed) ==
    LET top == parsed.val.entries
        rest == {i \in 1..Len(top) : top[i][1] \notin BuildFields}
        IsString(key) == key \in DocKeys(top) /\ DocGet(top, key).type = "string"
    IN IF ~parsed.ok THEN parsed
       ELSE IF ~(/\ IsString("workspace-root") /\ IsString("build-platform")
                 /\ IsString("build-architecture"))
       THEN Err("Parse")
       ELSE IF "build-variation" \in DocKeys(top) /\ ~IsString("build-variation")
       THEN Err("Parse")
       ELSE IF ~Sel4ArchitectureFromStr(DocGet(top, "build-architecture").str).ok
       THEN Err("Parse")
       ELSE IF parsed.val.tables # {} \/ \E i \in rest : ~DeserializeValue(top[i][2]).ok
       THEN Err("Parse")
       ELSE Ok(Build(DocGet(top, "workspace-root").str,
                     DocGet(top, "build-platform").str,
                     IF "build-variation" \in DocKeys(top)
                     THEN Some(DocGet(top, "build-variation").str) ELSE None,
                     Sel4ArchitectureFromStr(
                         DocGet(top, "build-architecture").str).val,
                     [k \in {top[i][1] : i \in rest} |->
                         DeserializeValue(DocGet(top, k)).val]))

\* toml::from_slice::<Build>: the file is parsed once (a key may appear
\* once in it), then typed
DeserializeBuild(doc) == Bind(TomlParse(doc), BuildOf)

\* The outcome of a call on the store: the filesystem after it and the
\* Result the caller gets.
Outcome(f, result) == [fs |-> f, result |-> result]

\* File::create(dir/name): the file is created, or truncated when it exists
FileCreate(f, dir, name) == WriteFile(f, dir, name, <<>>)

\* The File that File::create returns. A descriptor is of the file, not of
\* its name: linked says whether that file is still the one the directory
\* holds under the name, and it is FALSE from the moment the file is
\* unlinked, whatever is created under the name afterwards.
Handle(dir, name) == [dir |-> dir, name |-> name, linked |-> TRUE]

\* unlink(dir/name), as another program does it: the name is gone from the
\* directory
Unlink(f, dir, name) ==
    IF ~IsDir(f, dir) \/ name \notin DOMAIN f[dir].files THEN Err("Io")
    ELSE Ok([f EXCEPT ![dir].files =
                [n \in DOMAIN @ \ {name} |-> @[n]]])

\* what the unlink leaves of a descriptor
Unlinked(handle, dir, name) ==
    IF handle.dir = dir /\ handle.name = name
    THEN [handle EXCEPT !.linked = FALSE] ELSE handle

\* write() of a Workspace marker on a File opened before: the bytes go to
\* offset 0 of the file of the descriptor as it is now and what lies behind
\* them stays; when that file was unlinked since the open the bytes go to
\* the unlinked file, the write succeeds and the directory, with whatever
\* it holds under the name by now, is as it was
WriteWorkspace(f, handle, content) ==
    IF ~handle.linked THEN Ok(f)
    ELSE LET before == f[handle.dir].files[handle.name]
             stale == WorkspaceSize(before) - WorkspaceSize(content)
         IN WriteFile(f, handle.dir, handle.name,
                IF stale > 0
                THEN content \o <<<<"UNPARSED", DocStale(stale, before)>>>>
                ELSE content)

\* util.rs toml_save into dir/name, File::create(path)?.write(
\* toml::to_vec(&data)?.as_slice()): the receiver is evaluated first, so the
\* file is created or truncated before data is serialized, and it stays
\* empty when the serializer fails; the bytes written to the empty file
\* are all it holds. data is the Result of the serialization.
TomlSave(f, data, dir, name) ==
    LET created == FileCreate(f, dir, name)
    IN IF ~created.ok THEN Outcome(f, created)
       ELSE IF ~data.ok THEN Outcome(created.val, data)
       ELSE Outcome(WriteFile(created.val, dir, name, data.val).val, Ok("unit"))

\* util.rs toml_load from dir/name: File::open fails on a missing file
ReadFile(f, dir, name) ==
    IF IsDir(f, dir) /\ name \in DOMAIN f[dir].files
    THEN Ok(f[dir].files[name])
    ELSE Err("Io")

\* The precondition of both create functions on the target directory,
\* and the creation of the directory when it passes.
PrepareDirectoryUnchecked(f, root) == CreateDirAll(f, root)

PrepareDirectory(f, root) ==
    IF IsDir(f, root) /\ NotCountIsNonZero(ReadDirCount(f, root))
    THEN Err("NotEmpty")
    ELSE IF Exists(f, root)
    THEN Err("AlreadyExists")
    ELSE CreateDirAll(f, root)

\* WorkspaceContext::create
WorkspaceContextCreate(f, project, path) ==
    LET workspace == Workspace(project, {})
        made == PrepareDirectory(f, path)
    IN IF ~made.ok THEN Outcome(f, made)
       ELSE LET cached == CreateSubdir(made.val, path, CACHE_SUBDIR)
            IN IF ~cached.ok THEN Outcome(made.val, cached)
               ELSE LET saved == TomlSave(cached.val,
                                          Ok(SerializeWorkspace(workspace)),
                                          path, WORKSPACE_FILENAME)
                    IN IF ~saved.result.ok THEN saved
                       ELSE Outcome(saved.fs, Ok(WorkspaceContext(workspace, path)))

\* WorkspaceContext::load
WorkspaceContextLoad(f, path) ==
    LET read == ReadFile(f, path, WORKSPACE_FILENAME)
    IN IF ~read.ok THEN read
       ELSE LET workspace == DeserializeWorkspace(read.val)
            IN IF ~workspace.ok THEN workspace
               ELSE Ok(WorkspaceContext(workspace.val, path))

\* BuildContext::load: the given workspace context is cloned as it is
BuildContextLoad(f, ctx, path) ==
    LET read == ReadFile(f, path, BUILD_FILENAME)
    IN IF ~read.ok THEN read
       ELSE LET build == DeserializeBuild(read.val)
            IN IF ~build.ok THEN build
               ELSE Ok(BuildContext(ctx, build.val, path))

\* BTreeSet<PathBuf>::iter: the forward paths in the order of Path's Ord,
\* component by component (".." sorts before every name used here)
ForwardOrder ==
    <<<<"..", "o">>, <<"..", "w", "b1">>, <<"..", "w", "b2">>, <<"b1">>,
      <<"b2">>>>

\* WorkspaceContext::builds without the test that skips missing paths
RECURSIVE BuildsFromUnskipped(_, _, _)
BuildsFromUnskipped(f, ctx, i) ==
    IF i > Len(ForwardOrder) THEN <<>>
    ELSE (IF ForwardOrder[i] \in ctx.workspace.builds
          THEN <<BuildContextLoad(f, ctx, Join(ctx.workspace_root, ForwardOrder[i]))>>
          ELSE <<>>) \o BuildsFromUnskipped(f, ctx, i + 1)

WorkspaceContextBuildsUnskipped(f, ctx) == BuildsFromUnskipped(f, ctx, 1)

\* WorkspaceContext::builds, collected: for each recorded build in order,
\* nothing when workspace_root/build does not exist, else the Result of
\* load_build on it
RECURSIVE BuildsFrom(_, _, _)
BuildsFrom(f, ctx, i) ==
    IF i > Len(ForwardOrder) THEN <<>>
    ELSE LET build == ForwardOrder[i]
         IN (IF /\ build \in ctx.workspace.builds
                /\ ExistsFrom(f, ctx.workspace_root, build)
             THEN <<BuildContextLoad(f, ctx, Join(ctx.workspace_root, build))>>
             ELSE <<>>) \o BuildsFrom(f, ctx, i + 1)

WorkspaceContextBuilds(f, ctx) == BuildsFrom(f, ctx, 1)

\* the value of find_context for a call that does not return
NoReturn == [ok |-> FALSE, err |-> "NoReturn"]

\* Path::exists on dir/name: a file or a directory of that name
ExistsNamed(f, dir, name) ==
    IsDir(f, dir) /\ (name \in DOMAIN f[dir].files \/ name \in f[dir].subdirs)

\* one turn of the loop of find_context with the loop's path at `path`:
\* the loop ends when the path has no parent; the Build marker is looked
\* for first (a directory of its name exists as well, and fails to load),
\* and its workspace is loaded from build.workspace_root as the working
\* directory resolves it; when neither marker is there, each push of a
\* file name has been undone by its pop and the path is the directory it
\* was
FindContextTurn(f, cwd, path) ==
    LET InBuild(build) ==
            LET dir == ResolveDir(f, cwd, build.val.workspace_root)
                read == IF dir.ok
                        THEN ReadFile(f, dir.val, WORKSPACE_FILENAME) ELSE dir
                Rooted(workspace) ==
                    IF ~workspace.ok THEN [returns |-> TRUE, result |-> workspace]
                    ELSE [returns |-> TRUE,
                          result |-> Ok(Some(BuildContext(
                             WorkspaceContext(workspace.val,
                                 Join(path, build.val.workspace_root)),
                             build.val, path)))]
            IN IF ~build.ok THEN [returns |-> TRUE, result |-> build]
               ELSE Bind(IF read.ok THEN DeserializeWorkspace(read.val) ELSE read,
                         Rooted)
        InWorkspace(workspace) ==
            IF ~workspace.ok THEN [returns |-> TRUE, result |-> workspace]
            ELSE [returns |-> TRUE,
                  result |-> Ok(Some(WorkspaceContext(workspace.val, path)))]
        Load(name, Deserialize(_)) ==
            LET loaded == ReadFile(f, path, name)
            IN IF loaded.ok THEN Deserialize(loaded.val) ELSE loaded
    IN IF path = <<>> THEN [returns |-> TRUE, result |-> Ok(None)]
       ELSE IF ExistsNamed(f, path, BUILD_FILENAME)
       THEN Bind(Load(BUILD_FILENAME, DeserializeBuild), InBuild)
       ELSE IF ExistsNamed(f, path, WORKSPACE_FILENAME)
       THEN Bind(Load(WORKSPACE_FILENAME, DeserializeWorkspace), InWorkspace)
       ELSE [returns |-> FALSE, path |-> path]

\* the loop of find_context from `path`: a turn that neither returns nor
\* moves the path is repeated for ever
RECURSIVE FindContextFrom(_, _, _)
FindContextFrom(f, cwd, path) ==
    LET After(turn) ==
            IF turn.returns THEN turn.result
            ELSE IF turn.path = path THEN NoReturn
            ELSE FindContextFrom(f, cwd, turn.path)
    IN Bind(FindContextTurn(f, cwd, path), After)

FindContext(f, cwd) == FindContextFrom(f, cwd, cwd)

\* BuildContext::update_setting
UpdateSetting(ctx, s) == [ctx EXCEPT !.build.setting = MergeSetting(@, s)]

\* BuildContext::save
BuildContextSave(f, lib, ctx) ==
    TomlSave(f, SerializeBuild(lib, ctx.build), ctx.build_root, BUILD_FILENAME)

\* BuildContext::create, "Construct all settings": the resolved Setting
\* with the caller's added Setting merged over it
ConstructSettingsAddedFirst(cfg, project, platform, variation, arch, added) ==
    LET resolved == PlatformSetting(cfg, project, platform, variation, arch)
    IN IF ~resolved.ok THEN resolved
       ELSE Ok(MergeSetting(added, resolved.val))

ConstructSettings(cfg, project, platform, variation, arch, added) ==
    LET resolved == PlatformSetting(cfg, project, platform, variation, arch)
    IN IF ~resolved.ok THEN resolved
       ELSE Ok(MergeSetting(resolved.val, added))

\* workspace.builds.insert(forward path) on the clone of the caller's
\* Workspace
WorkspaceWithOnlyBuild(workspace, forth) == Workspace(workspace.project, {forth})

WorkspaceWithBuild(workspace, forth) ==
    Workspace(workspace.project, workspace.builds \cup {forth})

\* BuildContext::create
BuildContextCreate(f, lib, cfg, ctx, platform, variation, arch, added, path) ==
    LET made == PrepareDirectory(f, path)
    IN IF ~made.ok THEN Outcome(f, made)
       ELSE
       LET f1 == made.val
           s == ConstructSettings(cfg, ctx.workspace.project, platform,
                                  variation, arch, added)
           back == RelativePath(f1, path, ctx.workspace_root)
           forth == RelativePath(f1, ctx.workspace_root, path)
       IN IF ~s.ok THEN Outcome(f1, s)
          ELSE IF ~back.ok THEN Outcome(f1, back)
          ELSE IF ~forth.ok THEN Outcome(f1, forth)
          ELSE
          LET build == Build(back.val, platform, variation, arch, s.val)
              workspace == WorkspaceWithBuild(ctx.workspace, forth.val)
              saved1 == TomlSave(f1, SerializeBuild(lib, build), path,
                                 BUILD_FILENAME)
          IN IF ~saved1.result.ok THEN saved1
             ELSE
             LET saved2 == TomlSave(saved1.fs, Ok(SerializeWorkspace(workspace)),
                                    ctx.workspace_root, WORKSPACE_FILENAME)
             IN IF ~saved2.result.ok THEN saved2
                ELSE Outcome(saved2.fs,
                        Ok(BuildContext(
                            WorkspaceContext(workspace, ctx.workspace_root),
                            build, path)))

\* Value::cmake_str
CmakeStr(value) ==
    IF value.tag = "Boolean"
    THEN (IF value.val = "true" THEN "ON" ELSE "OFF")
    ELSE value.val

\* Config::cmake_args with Flag::cmake_flag: -D<variable>=<value> for the
\* entries of the Setting, in key order, whose flag is in the catalog and
\* names a variable
RECURSIVE CmakeArgsFrom(_, _, _)
CmakeArgsFrom(cfg, s, i) ==
    IF i > Len(FlagOrder) THEN <<>>
    ELSE LET id == FlagOrder[i]
         IN (IF id \in DOMAIN s /\ id \in DOMAIN cfg.flags
                  /\ cfg.flags[id].variable.some
             THEN <<<<"-D", cfg.flags[id].variable.val, CmakeStr(s[id])>>>>
             ELSE <<>>) \o CmakeArgsFrom(cfg, s, i + 1)

CmakeArgs(cfg, s) == CmakeArgsFrom(cfg, s, 1)

\* Project::cmake: check the Setting, save the context, then build the
\* docker command; docker says whether apps.docker() finds its program
ProjectCmakeSaveFirst(f, lib, cfg, ctx, docker) ==
    LET saved == BuildContextSave(f, lib, ctx)
        checked == CheckSetting(cfg, ctx.build.setting)
    IN IF ~saved.result.ok THEN saved
       ELSE IF checked # "Ok" THEN Outcome(saved.fs, Err(checked))
       ELSE IF ~docker THEN Outcome(saved.fs, Err("NoDocker"))
       ELSE Outcome(saved.fs,
                    Ok(<<"cmake">> \o CmakeArgs(cfg, ctx.build.setting)))

ProjectCmake(f, lib, cfg, ctx, docker) ==
    LET checked == CheckSetting(cfg, ctx.build.setting)
    IN IF checked # "Ok" THEN Outcome(f, Err(checked))
       ELSE
       LET saved == BuildContextSave(f, lib, ctx)
       IN IF ~saved.result.ok THEN saved
          ELSE IF ~docker THEN Outcome(saved.fs, Err("NoDocker"))
          ELSE Outcome(saved.fs,
                       Ok(<<"cmake">> \o CmakeArgs(cfg, ctx.build.setting)))

----------------------------------------------------------------------------
(* Values shared by the specifications. *)

NoContext == [kind |-> "none"]

NoCall == [op |-> "none"]

\* Apps without a machine queue (machine_queue: None)
NoInventory == [available |-> FALSE]

\* A Config with empty catalogs (Defaults carry no Setting and are left out).
EmptyConfig ==
    [flags |-> EmptyMap, platforms |-> EmptyMap,
     architectures |-> EmptyMap, projects |-> EmptyMap]

\* The store is not touched by the calls on Settings and Configs, and
\* nothing is serialized.
NoStore ==
    /\ fs = EmptyMap /\ wctx = NoContext /\ bctx = NoContext /\ calls = 0
    /\ procs = <<>>
    /\ toml = "unsupported"
    /\ inventory = NoInventory

----------------------------------------------------------------------------
(* SpecMerge: a caller holds a Setting and merges layers into it           *)
(* (Setting::merge, as BuildContext::update_setting does).                 *)

MergeFlags == {KERNEL_PLATFORM_FLAG, "mcs", PLATFORM_FLAG}

MergeSettings == SettingsOver(MergeFlags, Values)

InitMerge ==
    /\ config = EmptyConfig
    /\ setting \in MergeSettings
    /\ ret = NoCall
    /\ NoStore

\* setting.merge(other); reapplied records that other is the layer the
\* previous call merged.
Merge(other) ==
    /\ setting' = MergeSetting(setting, other)
    /\ ret' = [op |-> "merge", self |-> setting, other |-> other,
               reapplied |-> (ret.op = "merge" /\ ret.other = other)]
    /\ UNCHANGED <<toml, inventory, procs, config, fs, wctx, bctx, calls>>

NextMerge == \E other \in MergeSettings : Merge(other)

SpecMerge == InitMerge /\ [][NextMerge]_vars

Disagree(a, b) == \E k \in DOMAIN a \cap DOMAIN b : a[k] # b[k]

\* C4: A.merge(B) has the keys of A and of B, every key of B maps to B's
\* value, every key of A alone keeps A's value; and when A and B disagree
\* on a shared key, merge(A, B) differs from merge(B, A).
C4_MergeOtherWins ==
    ret.op = "merge" =>
        /\ DOMAIN setting = DOMAIN ret.self \cup DOMAIN ret.other
        /\ \A k \in DOMAIN ret.other : setting[k] = ret.other[k]
        /\ \A k \in DOMAIN ret.self \ DOMAIN ret.other : setting[k] = ret.self[k]
        /\ Disagree(ret.self, ret.other) =>
               setting # MergeSetting(ret.other, ret.self)

C4_Witness ==
    /\ ret.op = "merge"
    /\ Disagree(ret.self, ret.other)
    /\ \E k \in DOMAIN ret.self \cap DOMAIN ret.other :
           ret.self[k].tag # ret.other[k].tag
    /\ DOMAIN ret.self \ DOMAIN ret.other # {}
    /\ DOMAIN ret.other \ DOMAIN ret.self # {}

\* C5: merging the empty Setting into A leaves A unchanged.
C5_MergeEmpty ==
    (ret.op = "merge" /\ ret.other = EmptySetting) => setting = ret.self

C5_Witness ==
    ret.op = "merge" /\ ret.other = EmptySetting /\ ret.self # EmptySetting

\* C6: merging a layer B again, right after it was merged, changes nothing:
\* merge(merge(A, B), B) = merge(A, B).
C6_MergeIdempotent ==
    (ret.op = "merge" /\ ret.reapplied) => setting = ret.self

C6_Witness ==
    /\ ret.op = "merge"
    /\ ret.reapplied
    /\ ret.other # EmptySetting
    /\ DOMAIN ret.self \ DOMAIN ret.other # {}

----------------------------------------------------------------------------
(* SpecValidate: a Config with a flag catalog, a Setting, and calls of     *)
(* Flag::validate and Config::check_setting on them.                       *)

ReqPool ==
    {ReqSingle(Boolean(TRUE)), ReqSingle(Text("a")), ReqAny({Boolean(FALSE), Text("a")})}

DepFlags == {"x", "y"}

\* the maps FlagId -> Requirement over the dependency flags
ConjPool == UNION {[D -> ReqPool] : D \in SUBSET DepFlags}

\* requires sets of none, one or two maps
RequiresPool ==
    {{}} \cup {{c, d} : c \in ConjPool, d \in ConjPool}

\* catalogs: F gated by any requires set; x absent or gated on y
Catalogs ==
    {("F" :> Flag(None, r)) : r \in RequiresPool} \cup
    {("F" :> Flag(None, r)) @@ ("x" :> Flag(None, {("y" :> ReqSingle(Boolean(TRUE)))})) :
        r \in RequiresPool}

ValidateSettings == SettingsOver({"F", "x", "y"}, Values)

InitValidate ==
    /\ \E c \in Catalogs : config = [EmptyConfig EXCEPT !.flags = c]
    /\ setting \in ValidateSettings
    /\ ret = NoCall
    /\ NoStore

\* Flag::validate(config.flags[id], &setting, &value)
CallValidate(id, value) ==
    /\ id \in DOMAIN config.flags
    /\ ret' = [op |-> "validate", flag |-> config.flags[id], value |-> value,
               result |-> Validate(config.flags[id], setting, value)]
    /\ UNCHANGED <<toml, inventory, procs, config, setting, fs, wctx, bctx, calls>>

\* config.check_setting(&setting)
CallCheckSetting ==
    /\ ret' = [op |-> "check_setting", result |-> CheckSetting(config, setting)]
    /\ UNCHANGED <<toml, inventory, procs, config, setting, fs, wctx, bctx, calls>>

NextValidate ==
    \/ \E id \in FlagIds, value \in Values : CallValidate(id, value)
    \/ CallCheckSetting

SpecValidate == InitValidate /\ [][NextValidate]_vars

\* the value a conjunction reads for a flag: false when the flag is not set
Reads(s, dep) == IF dep \in DOMAIN s THEN s[dep] ELSE Boolean(FALSE)

Met(req, v) ==
    \/ req.kind = "Single" /\ req.value = v
    \/ req.kind = "Any" /\ v \in req.values

SomeConjunctionMet(requires, s) ==
    \E conj \in requires : \A dep \in DOMAIN conj : Met(conj[dep], Reads(s, dep))

\* C2: Flag::validate accepts exactly when the flag has no requirements, or
\* the value is false, or the value is true and some conjunction of
\* requires is met by the Setting (an absent flag reading as false).
C2_ValidateAccepts ==
    ret.op = "validate" =>
        (ret.result = "Ok" <=>
            \/ ret.flag.requires = {}
            \/ ret.value = Boolean(FALSE)
            \/ ret.value = Boolean(TRUE) /\ SomeConjunctionMet(ret.flag.requires, setting))

\* true accepted through a conjunction that reads an absent flag
C2_Witness ==
    /\ ret.op = "validate"
    /\ ret.result = "Ok"
    /\ ret.value = Boolean(TRUE)
    /\ Cardinality(ret.flag.requires) = 2
    /\ \E conj \in ret.flag.requires :
          /\ \A dep \in DOMAIN conj : Met(conj[dep], Reads(setting, dep))
          /\ \E dep \in DOMAIN conj : dep \notin DOMAIN setting
    /\ \E conj \in ret.flag.requires :
          \E dep \in DOMAIN conj : ~Met(conj[dep], Reads(setting, dep))

\* C3: check_setting succeeds iff every entry of the Setting whose id is in
\* the catalog validates; entries outside the catalog and catalog flags
\* outside the Setting play no part; the Setting and the Config are left
\* as they were.
C3_CheckSetting ==
    [][ret'.op = "check_setting" =>
          /\ ret'.result = "Ok" <=>
                 \A id \in DOMAIN setting :
                     id \in DOMAIN config.flags =>
                         Validate(config.flags[id], setting, setting[id]) = "Ok"
          /\ setting' = setting
          /\ config' = config]_vars

\* accepted although one entry is outside the catalog and a gated flag of
\* the catalog, whose requirements are not met, is outside the Setting
C3_Witness ==
    /\ ret.op = "check_setting"
    /\ ret.result = "Ok"
    /\ DOMAIN setting \ DOMAIN config.flags # {}
    /\ DOMAIN setting \cap DOMAIN config.flags # {}
    /\ \E id \in DOMAIN config.flags \ DOMAIN setting :
           Validate(config.flags[id], setting, Boolean(TRUE)) # "Ok"

----------------------------------------------------------------------------
(* SpecResolve: Configs whose layers are drawn from a pool of Settings,    *)
(* and calls of Config::platform_setting on them.                          *)

LayerFlags == {KERNEL_PLATFORM_FLAG, "mcs", PLATFORM_FLAG}

\* a layer sets no flag or one flag
LayerSettings ==
    {EmptySetting} \cup {(f :> v) : f \in LayerFlags, v \in Values}

\* platform p1 with variation v1, platform p2 with variation v2, a Setting
\* for aarch64 alone, project j1
ConfigOf(sP, sV, sA, sJ) ==
    [flags |-> EmptyMap,
     platforms |->
        ("p1" :> Platform({"aarch64"}, ("v1" :> Variation(sV)), sP)) @@
        ("p2" :> Platform({"aarch64", "riscv64"},
                          ("v2" :> Variation(EmptySetting)), EmptySetting)),
     architectures |-> ("aarch64" :> sA),
     projects |-> ("j1" :> Project(sJ))]

ProjectInputs == {"j1", "j9"}

PlatformInputs == {"p1", "p2", "p9"}

VariationInputs == {None, Some("v1"), Some("v2")}

ArchInputs == {"aarch64", "riscv64"}

InitResolve ==
    /\ \E sP \in LayerSettings, sV \in LayerSettings,
          sA \in LayerSettings, sJ \in LayerSettings :
            config = ConfigOf(sP, sV, sA, sJ)
    /\ setting = EmptySetting
    /\ ret = NoCall
    /\ NoStore

\* let setting = config.platform_setting(&project, &platform, variation, arch)?
\* made once on the loaded Config, as one invocation of the tool does
CallPlatformSetting(project, platform, variation, arch) ==
    LET result == PlatformSetting(config, project, platform, variation, arch)
    IN /\ ret = NoCall
       /\ ret' = [op |-> "platform_setting", project |-> project,
                  platform |-> platform, variation |-> variation,
                  arch |-> arch, result |-> result]
       /\ setting' = IF result.ok THEN result.val ELSE setting
       /\ UNCHANGED <<toml, inventory, procs, config, fs, wctx, bctx, calls>>

NextResolve ==
    \E project \in ProjectInputs, platform \in PlatformInputs,
       variation \in VariationInputs, arch \in ArchInputs :
        CallPlatformSetting(project, platform, variation, arch)

SpecResolve == InitResolve /\ [][NextResolve]_vars

\* The Settings of the catalog that a successful resolution layers, first
\* to last: platform, variation (if given), architecture (if the table has
\* it), project.
CatalogLayers(cfg, call) ==
    <<cfg.platforms[call.platform].setting>> \o
    (IF call.variation.some
     THEN <<cfg.platforms[call.platform].variations[call.variation.val].setting>>
     ELSE <<>>) \o
    (IF call.arch \in DOMAIN cfg.architectures
     THEN <<cfg.architectures[call.arch]>> ELSE <<>>) \o
    <<cfg.projects[call.project].setting>>

\* The same layers with the two the code sets itself: both platform flags
\* named after the platform before the platform's Setting, and the
\* platform flag named after the variation before the variation's Setting.
AllLayers(cfg, call) ==
    <<(KERNEL_PLATFORM_FLAG :> Text(call.platform)) @@
      (PLATFORM_FLAG :> Text(call.platform)),
      cfg.platforms[call.platform].setting>> \o
    (IF call.variation.some
     THEN <<(PLATFORM_FLAG :> Text(call.variation.val)),
            cfg.platforms[call.platform].variations[call.variation.val].setting>>
     ELSE <<>>) \o
    (IF call.arch \in DOMAIN cfg.architectures
     THEN <<cfg.architectures[call.arch]>> ELSE <<>>) \o
    <<cfg.projects[call.project].setting>>

Defining(layers, f) == {i \in 1..Len(layers) : f \in DOMAIN layers[i]}

LastValue(layers, f) ==
    layers[CHOOSE i \in Defining(layers, f) :
               \A j \in Defining(layers, f) : j <= i][f]

\* C1 as stated: every flag of the resolved Setting that a catalog layer
\* defines has the value of the last catalog layer defining it (platform,
\* variation, architecture, project).
C1_LastCatalogLayerWins ==
    (ret.op = "platform_setting" /\ ret.result.ok) =>
        \A f \in DOMAIN ret.result.val :
            Defining(CatalogLayers(config, ret), f) # {} =>
                ret.result.val[f] = LastValue(CatalogLayers(config, ret), f)

\* C1 (amended): the resolved Setting has exactly the flags some layer
\* defines, each with the value of the last layer defining it, the layers
\* being: both platform flags = platform id, platform Setting, platform
\* flag = variation id and variation Setting (if a variation is given),
\* architecture Setting (if the table has it), project Setting.
C1_LastLayerWins ==
    (ret.op = "platform_setting" /\ ret.result.ok) =>
        /\ DOMAIN ret.result.val =
               {f \in FlagIds : Defining(AllLayers(config, ret), f) # {}}
        /\ \A f \in DOMAIN ret.result.val :
               ret.result.val[f] = LastValue(AllLayers(config, ret), f)

\* four catalog layers: the platform's and the variation's values of mcs
\* are overridden by the project's, and the architecture layer applies
C1_Witness ==
    /\ ret.op = "platform_setting"
    /\ ret.result.ok
    /\ ret.variation.some
    /\ ret.arch \in DOMAIN config.architectures
    /\ Len(CatalogLayers(config, ret)) = 4
    /\ "mcs" \in DOMAIN CatalogLayers(config, ret)[1]
    /\ "mcs" \in DOMAIN CatalogLayers(config, ret)[4]
    /\ CatalogLayers(config, ret)[1]["mcs"] # CatalogLayers(config, ret)[4]["mcs"]
    /\ ret.result.val["mcs"] = CatalogLayers(config, ret)[4]["mcs"]

\* C7: an unknown platform, a variation the platform lacks, or an unknown
\* project makes platform_setting return an error without a Setting; the
\* platform is looked up first, then the variation, then the project.
C7_LookupErrors ==
    ret.op = "platform_setting" =>
        LET noPlatform == ret.platform \notin DOMAIN config.platforms
            noVariation ==
                /\ ~noPlatform
                /\ ret.variation.some
                /\ ret.variation.val \notin
                       DOMAIN config.platforms[ret.platform].variations
            noProject == ret.project \notin DOMAIN config.projects
        IN /\ noPlatform => ret.result = Err("NoSuchPlatform")
           /\ noVariation => ret.result = Err("NoSuchVariation")
           /\ (~noPlatform /\ ~noVariation /\ noProject) =>
                  ret.result = Err("NoSuchProject")
           /\ (noPlatform \/ noVariation \/ noProject) <=> ~ret.result.ok
           /\ ~ret.result.ok => DOMAIN ret.result = {"ok", "err"}

\* a variation of another platform, asked for together with an unknown
\* project: the variation is the error reported
C7_Witness ==
    /\ ret.op = "platform_setting"
    /\ ret.platform = "p1"
    /\ ret.variation = Some("v2")
    /\ ret.project \notin DOMAIN config.projects
    /\ ret.result = Err("NoSuchVariation")

----------------------------------------------------------------------------
(* Spec: the workspace / build store. One caller makes calls one after     *)
(* another on a filesystem in which at most one of the directories w and o *)
(* exists beforehand.                                                      *)

\* the number of calls in a behaviour
MaxCalls == 4

\* platform p1 sets mcs = false, its variation v1 sets mcs = true, aarch64
\* sets x, project j1 sets y; the catalog has the flag mcs, passed to CMake
\* as KernelIsMCS and requiring x = true
StoreConfig ==
    [ConfigOf(("mcs" :> Boolean(FALSE)), ("mcs" :> Boolean(TRUE)),
              ("x" :> Text("a")), ("y" :> Boolean(TRUE)))
       EXCEPT !.flags = ("mcs" :> Flag(Some("KernelIsMCS"),
                                       {("x" :> ReqSingle(Boolean(TRUE)))}))]

UserFile == "README"

NonEmptyDir == [EmptyDir EXCEPT !.files = (UserFile :> <<>>)]

RootOnly == [p \in Paths |-> IF p = <<>> THEN EmptyDir ELSE Absent]

\* a Build marker as a user writes it, its flags as bare TOML values
WrittenBuildMarker ==
    <<<<"workspace-root", DocString(<<"..">>)>>,
      <<"build-platform", DocString("p1")>>,
      <<"build-architecture", DocString("aarch64")>>,
      <<KERNEL_PLATFORM_FLAG, DocString("p1")>>,
      <<"mcs", DocBoolean("false")>>,
      <<PLATFORM_FLAG, DocString("p1")>>>>

\* a workspace of an earlier session: w records the builds b1 and b2; b1 is
\* there with its marker and an images directory, the directory of b2 has
\* been removed since
EarlierWorkspace ==
    [RootOnly EXCEPT
        ![<<"w">>] = [kind |-> "dir",
                      files |-> (WORKSPACE_FILENAME :>
                          SerializeWorkspace(Workspace("j1", {<<"b1">>, <<"b2">>}))),
                      subdirs |-> {CACHE_SUBDIR}],
        ![<<"w", "b1">>] = [kind |-> "dir",
                            files |-> (BUILD_FILENAME :> WrittenBuildMarker),
                            subdirs |-> {}],
        ![<<"w", "b1", "images">>] = EmptyDir]

InitialFilesystems ==
    {RootOnly, EarlierWorkspace} \cup
    {[RootOnly EXCEPT ![p] = n] :
        p \in {<<"w">>, <<"o">>}, n \in {EmptyDir, NonEmptyDir, PlainFile}}

WorkspacePaths == {<<"w">>, <<"o">>}

BuildPaths == {<<"w", "b1">>, <<"w", "b2">>, <<"o">>}

\* (platform, variation, architecture, added Setting) of a create call
CreateInputs ==
    {<<"p1", None, "aarch64", EmptySetting>>,
     <<"p1", Some("v1"), "riscv64", ("mcs" :> Boolean(FALSE))>>,
     <<"p1", Some("v1"), "aarch64", (PLATFORM_FLAG :> Text("a"))>>,
     <<"p9", None, "aarch64", EmptySetting>>,
     <<"p1", Some("v2"), "aarch64", EmptySetting>>}

Init ==
    /\ config = StoreConfig
    /\ setting = EmptySetting
    /\ fs \in InitialFilesystems
    /\ wctx = NoContext
    /\ bctx = NoContext
    /\ ret = NoCall
    /\ calls = 0
    /\ procs = <<>>
    /\ toml \in TomlCrates
    /\ inventory = NoInventory

\* let context = WorkspaceContext::create(project, path)?
CallWorkspaceCreate(project, path) ==
    LET out == WorkspaceContextCreate(fs, project, path)
    IN /\ calls < MaxCalls
       /\ calls' = calls + 1
       /\ fs' = out.fs
       /\ wctx' = IF out.result.ok THEN out.result.val ELSE wctx
       /\ ret' = [op |-> "WorkspaceContext::create", project |-> project,
                  path |-> path, result |-> out.result]
       /\ UNCHANGED <<toml, inventory, procs, config, setting, bctx>>

\* let context = WorkspaceContext::load(path)?
CallWorkspaceLoad(path) ==
    LET result == WorkspaceContextLoad(fs, path)
    IN /\ calls < MaxCalls
       /\ calls' = calls + 1
       /\ wctx' = IF result.ok THEN result.val ELSE wctx
       /\ ret' = [op |-> "WorkspaceContext::load", path |-> path,
                  result |-> result]
       /\ UNCHANGED <<toml, inventory, procs, config, setting, fs, bctx>>

\* let context = BuildContext::create(&config, &context, platform,
\* variation, architecture, setting, path)?: the workspace context is
\* borrowed and stays as the caller holds it
CallBuildCreate(input, path) ==
    LET out == BuildContextCreate(fs, toml, config, wctx, input[1], input[2],
                                  input[3], input[4], path)
    IN /\ calls < MaxCalls
       /\ wctx # NoContext
       /\ calls' = calls + 1
       /\ fs' = out.fs
       /\ bctx' = IF out.result.ok THEN out.result.val ELSE bctx
       /\ ret' = [op |-> "BuildContext::create", workspace |-> wctx,
                  platform |-> input[1], variation |-> input[2],
                  arch |-> input[3], added |-> input[4], path |-> path,
                  result |-> out.result]
       /\ UNCHANGED <<toml, inventory, procs, config, setting, wctx>>

\* let context = BuildContext::load(&context, path)?
CallBuildLoad(path) ==
    LET result == BuildContextLoad(fs, wctx, path)
    IN /\ calls < MaxCalls
       /\ wctx # NoContext
       /\ calls' = calls + 1
       /\ bctx' = IF result.ok THEN result.val ELSE bctx
       /\ ret' = [op |-> "BuildContext::load", workspace |-> wctx,
                  path |-> path, result |-> result]
       /\ UNCHANGED <<toml, inventory, procs, config, setting, fs, wctx>>

\* the Settings a caller merges into a build it holds
UpdateInputs == {("mcs" :> Boolean(TRUE)), ("F" :> Text("a"))}

\* context.update_setting(setting)
CallUpdateSetting(s) ==
    /\ calls < MaxCalls
    /\ bctx # NoContext
    /\ calls' = calls + 1
    /\ bctx' = UpdateSetting(bctx, s)
    /\ ret' = [op |-> "BuildContext::update_setting", setting |-> s]
    /\ UNCHANGED <<toml, inventory, procs, config, setting, fs, wctx>>

\* the Settings a caller puts in the place of the one a build holds
SettingMutInputs == {EmptySetting, ("x" :> Boolean(TRUE))}

\* *context.setting_mut() = setting: the caller writes through the &mut
\* Setting it is handed, replacing what the build held
CallSettingMut(s) ==
    /\ calls < MaxCalls
    /\ bctx # NoContext
    /\ calls' = calls + 1
    /\ bctx' = [bctx EXCEPT !.build.setting = s]
    /\ ret' = [op |-> "BuildContext::setting_mut", setting |-> s]
    /\ UNCHANGED <<toml, inventory, procs, config, setting, fs, wctx>>

\* context.save()?
CallSave ==
    LET out == BuildContextSave(fs, toml, bctx)
    IN /\ calls < MaxCalls
       /\ bctx # NoContext
       /\ calls' = calls + 1
       /\ fs' = out.fs
       /\ ret' = [op |-> "BuildContext::save", result |-> out.result]
       /\ UNCHANGED <<toml, inventory, procs, config, setting, wctx, bctx>>

\* context.builds().collect()
CallBuilds ==
    /\ calls < MaxCalls
    /\ wctx # NoContext
    /\ calls' = calls + 1
    /\ ret' = [op |-> "WorkspaceContext::builds", workspace |-> wctx,
               items |-> WorkspaceContextBuilds(fs, wctx)]
    /\ UNCHANGED <<toml, inventory, procs, config, setting, fs, wctx, bctx>>

\* find_context()? with the working directory cwd
CallFindContext(cwd) ==
    /\ calls < MaxCalls
    /\ IsDir(fs, cwd)
    /\ FindContext(fs, cwd) # NoReturn
    /\ calls' = calls + 1
    /\ ret' = [op |-> "find_context", cwd |-> cwd,
               result |-> FindContext(fs, cwd)]
    /\ UNCHANGED <<toml, inventory, procs, config, setting, fs, wctx, bctx>>

Next ==
    \/ \E s \in UpdateInputs : CallUpdateSetting(s)
    \/ \E s \in SettingMutInputs : CallSettingMut(s)
    \/ CallSave
    \/ CallBuilds
    \/ \E cwd \in Paths : CallFindContext(cwd)
    \/ \E project \in ProjectInputs, path \in WorkspacePaths :
          CallWorkspaceCreate(project, path)
    \/ \E path \in WorkspacePaths : CallWorkspaceLoad(path)
    \/ \E input \in CreateInputs, path \in BuildPaths :
          CallBuildCreate(input, path)
    \/ \E path \in BuildPaths : CallBuildLoad(path)

Spec == Init /\ [][Next]_vars

\* the Build marker in a build directory, as written
BuildMarker(f, path) == f[path].files[BUILD_FILENAME]

\* the entries of a Build marker after its own fields
MarkerSetting(doc) ==
    LET own == {i \in 1..Len(doc) : doc[i][1] = "build-architecture"}
        last == CHOOSE i \in own : \A j \in own : i <= j
    IN SubSeq(doc, last + 1, Len(doc))

\* C8: after a successful BuildContext::create the Setting of the returned
\* context, and the one in the Build marker, is the resolved Setting with
\* every flag of added_setting set to the caller's value.
C8_CreateSetting ==
    (ret.op = "BuildContext::create" /\ ret.result.ok) =>
        LET resolved == PlatformSetting(config, ret.workspace.workspace.project,
                            ret.platform, ret.variation, ret.arch).val
            expected == [f \in DOMAIN resolved \cup DOMAIN ret.added |->
                            IF f \in DOMAIN ret.added THEN ret.added[f]
                            ELSE resolved[f]]
        IN /\ ret.result.val.build.setting = expected
           /\ bctx.build.setting = expected
           /\ BUILD_FILENAME \in DOMAIN fs[ret.path].files
           /\ Ok(MarkerSetting(BuildMarker(fs, ret.path))) =
                 SerializeSetting(toml, expected)

\* the caller's value replaced a resolved one, and a resolved flag stayed
C8_Witness ==
    /\ ret.op = "BuildContext::create"
    /\ ret.result.ok
    /\ \E f \in DOMAIN ret.added :
          /\ PlatformSetting(config, ret.workspace.workspace.project,
                 ret.platform, ret.variation, ret.arch).val[f] # ret.added[f]
          /\ bctx.build.setting[f] = ret.added[f]
    /\ DOMAIN bctx.build.setting \ DOMAIN ret.added # {}

IsCreate(call) ==
    call.op \in {"WorkspaceContext::create", "BuildContext::create"}

\* C9: a create whose target exists as a non-empty directory or as a file
\* fails and leaves the filesystem (directories and markers) as it was.
C9_CreateConflict ==
    [][(/\ IsCreate(ret')
        /\ calls' = calls + 1
        /\ \/ fs[ret'.path].kind = "file"
           \/ fs[ret'.path].kind = "dir" /\ ReadDirCount(fs, ret'.path) > 0)
       => (~ret'.result.ok /\ fs' = fs)]_vars

\* a build refused on a directory that holds a file, in a workspace
C9_Witness ==
    /\ ret.op = "BuildContext::create"
    /\ ret.result = Err("NotEmpty")
    /\ ret.platform \in DOMAIN config.platforms
    /\ ReadDirCount(fs, ret.path) > 0
    /\ WORKSPACE_FILENAME \in DOMAIN fs[ret.workspace.workspace_root].files

\* C10 as stated: a create whose target exists as an empty directory (and,
\* for a build, whose ids the Config knows) succeeds and writes its marker
\* into that directory.
C10_CreateInEmptyDirectory ==
    [][(/\ IsCreate(ret')
        /\ calls' = calls + 1
        /\ fs[ret'.path].kind = "dir"
        /\ ReadDirCount(fs, ret'.path) = 0
        /\ ret'.op = "BuildContext::create" =>
               ConstructSettings(config, ret'.workspace.workspace.project,
                   ret'.platform, ret'.variation, ret'.arch, ret'.added).ok)
       => /\ ret'.result.ok
          /\ ret'.op = "WorkspaceContext::create" =>
                 WORKSPACE_FILENAME \in DOMAIN fs'[ret'.path].files
          /\ ret'.op = "BuildContext::create" =>
                 BUILD_FILENAME \in DOMAIN fs'[ret'.path].files]_vars

\* the (platform, variation, architecture, Setting) tuple of a Build
BuildTuple(build) ==
    <<build.platform, build.variation, build.architecture, build.setting>>

\* C11 as stated: a BuildContext::load of the path a BuildContext::create
\* has just succeeded on succeeds and yields a Build with the same
\* (platform, variation, architecture, Setting) tuple.
C11_RoundTrip ==
    [][(/\ ret.op = "BuildContext::create"
        /\ ret.result.ok
        /\ ret'.op = "BuildContext::load"
        /\ calls' = calls + 1
        /\ ret'.path = ret.path)
       => /\ ret'.result.ok
          /\ BuildTuple(ret'.result.val.build) =
                BuildTuple(ret.result.val.build)]_vars

\* the builds set of the Workspace marker persisted in root
PersistedBuilds(f, root) ==
    IF IsDir(f, root) /\ WORKSPACE_FILENAME \in DOMAIN f[root].files
       /\ "builds" \in DocKeys(f[root].files[WORKSPACE_FILENAME])
    THEN DocGet(f[root].files[WORKSPACE_FILENAME], "builds").strs
    ELSE {}

\* C12 as stated: a successful BuildContext::create, whichever context of
\* the workspace it is given, leaves every forward path that was persisted
\* in the Workspace marker in it and adds the forward path of its build.
C12_RegistrationsKept ==
    [][(/\ ret'.op = "BuildContext::create"
        /\ calls' = calls + 1
        /\ ret'.result.ok)
       => LET root == ret'.workspace.workspace_root
          IN /\ PersistedBuilds(fs, root) \subseteq PersistedBuilds(fs', root)
             /\ RelativePath(fs', root, ret'.path).val
                    \in PersistedBuilds(fs', root)]_vars

\* C13: after a successful BuildContext::create the workspace-root the
\* Build marker records, resolved from the build directory, is the
\* workspace root, and the Workspace marker there holds a forward path
\* that, resolved from the workspace root, is the build directory.
C13_MarkersLinked ==
    (ret.op = "BuildContext::create" /\ ret.result.ok) =>
        LET root == ret.workspace.workspace_root
            back == DocGet(BuildMarker(fs, ret.path), "workspace-root").str
        IN /\ Join(ret.path, back) = root
           /\ \E forth \in PersistedBuilds(fs, root) :
                 /\ Join(root, forth) = ret.path
                 /\ Join(Join(root, forth), back) = root

\* a build outside its workspace's directory: both relative paths climb
C13_Witness ==
    /\ ret.op = "BuildContext::create"
    /\ ret.result.ok
    /\ ~IsPrefix(ret.workspace.workspace_root, ret.path)
    /\ \E forth \in PersistedBuilds(fs, ret.workspace.workspace_root) :
          Head(forth) = ".." /\ Join(ret.workspace.workspace_root, forth) = ret.path

\* C16 as stated: BuildContext::save leaves every file of the store as it
\* was but the Build marker of the context's own build directory, which
\* then holds the context's current Build, Setting edits included;
\* update_setting and an edit through setting_mut change nothing on disk.
C16_SaveFrame ==
    [][/\ (/\ ret'.op \in {"BuildContext::update_setting",
                           "BuildContext::setting_mut"}
           /\ calls' = calls + 1)
           => fs' = fs
       /\ (ret'.op = "BuildContext::save" /\ calls' = calls + 1)
           => /\ \A path \in Paths \ {bctx.build_root} : fs'[path] = fs[path]
              /\ fs'[bctx.build_root].kind = fs[bctx.build_root].kind
              /\ fs'[bctx.build_root].subdirs = fs[bctx.build_root].subdirs
              /\ DOMAIN fs'[bctx.build_root].files =
                    DOMAIN fs[bctx.build_root].files
              /\ \A name \in DOMAIN fs[bctx.build_root].files \ {BUILD_FILENAME} :
                    fs'[bctx.build_root].files[name] =
                        fs[bctx.build_root].files[name]
              /\ Ok(BuildMarker(fs', bctx.build_root)) =
                    SerializeBuild(toml, bctx.build)]_vars

\* C17: WorkspaceContext::builds yields one item for each recorded path
\* that exists, the Result of BuildContext::load on it, and none for a
\* recorded path that does not exist; it writes nothing, so the Workspace
\* marker keeps its stale entries.
C17_BuildsSkipsMissing ==
    [][(ret'.op = "WorkspaceContext::builds" /\ calls' = calls + 1) =>
          LET root == wctx.workspace_root
              existing == {b \in wctx.workspace.builds :
                              Exists(fs, Join(root, b))}
          IN /\ Len(ret'.items) = Cardinality(existing)
             /\ \A b \in existing : \E i \in 1..Len(ret'.items) :
                   ret'.items[i] = BuildContextLoad(fs, wctx, Join(root, b))
             /\ \A i \in 1..Len(ret'.items) : \E b \in existing :
                   ret'.items[i] = BuildContextLoad(fs, wctx, Join(root, b))
             /\ fs' = fs]_vars

\* an enumeration over a recorded build that is there and one that is not:
\* one item, and the marker still records the missing one
C17_Witness ==
    /\ ret.op = "WorkspaceContext::builds"
    /\ Len(ret.items) = 1
    /\ ret.items[1].ok
    /\ \E b \in ret.workspace.workspace.builds :
          /\ ~Exists(fs, Join(ret.workspace.workspace_root, b))
          /\ b \in PersistedBuilds(fs, ret.workspace.workspace_root)

\* C18 as stated: an enumeration yields no error item, and no context
\* whose Build records a reverse path that resolves elsewhere than to the
\* enumerating workspace: entries that break the store invariant are
\* skipped.
C18_BrokenEntriesSkipped ==
    ret.op = "WorkspaceContext::builds" =>
        \A i \in 1..Len(ret.items) :
            /\ ret.items[i].ok
            /\ Join(ret.items[i].val.build_root,
                    ret.items[i].val.build.workspace_root)
                  = ret.workspace.workspace_root

\* a directory holds a marker file of the given name
HoldsMarker(f, dir, name) == IsDir(f, dir) /\ name \in DOMAIN f[dir].files

----------------------------------------------------------------------------
(* SpecConc: invocations of the tool run at the same time on one workspace. *)
(* Each loads the workspace context and runs BuildContext::create for a     *)
(* build path of its own; a step is one operation on the filesystem, and an *)
(* invocation may be stopped at any step. Another program may remove the    *)
(* Workspace marker at any time.                                            *)

\* the number of concurrent invocations
NumProcs == 2

Procs == 1..NumProcs

\* the workspace all invocations work on, and the build path of each
ConcRoot == <<"w">>

ConcPaths == <<<<"w", "b1">>, <<"o">>, <<"w", "b2">>>>

\* (platform, variation, architecture, added Setting) of an invocation
ConcInputs ==
    {<<"p1", None, "aarch64", EmptySetting>>,
     <<"p9", None, "aarch64", EmptySetting>>}

\* BuildContext::create in the order of its statements: the position after
\* each step that succeeds
StepAfterWorkspaceFirst(pc) ==
    CASE pc = "load" -> "prepare"
      [] pc = "prepare" -> "open-workspace"
      [] pc = "open-workspace" -> "write-workspace"
      [] pc = "write-workspace" -> "open-build"
      [] pc = "open-build" -> "write-build"
      [] pc = "write-build" -> "done"

StepAfter(pc) ==
    CASE pc = "load" -> "prepare"
      [] pc = "prepare" -> "open-build"
      [] pc = "open-build" -> "write-build"
      [] pc = "write-build" -> "open-workspace"
      [] pc = "open-workspace" -> "write-workspace"
      [] pc = "write-workspace" -> "done"

\* the workspace as WorkspaceContext::create has made it, and the same
\* after a build at the first build path was registered and its directory
\* removed: the marker still lists it
ConcFilesystems ==
    LET created == WorkspaceContextCreate(RootOnly, "j1", ConcRoot).fs
    IN {created,
        [created EXCEPT ![ConcRoot].files[WORKSPACE_FILENAME] =
            SerializeWorkspace(Workspace("j1", {<<"b1">>}))]}

\* an invocation before its first step
Invocation(input, path) ==
    [pc |-> "load", at |-> "load", input |-> input, path |-> path,
     ctx |-> NoContext, build |-> NoContext, workspace |-> NoContext,
     file |-> NoContext]

InitConc ==
    /\ config = StoreConfig
    /\ setting = EmptySetting
    /\ fs \in ConcFilesystems
    /\ wctx = NoContext
    /\ bctx = NoContext
    /\ ret = NoCall
    /\ calls = 0
    /\ toml \in TomlCrates
    /\ inventory = NoInventory
    /\ \E inputs \in [Procs -> ConcInputs] :
          procs = [p \in Procs |-> Invocation(inputs[p], ConcPaths[p])]

\* the invocation moves on after a step, or ends with the step's error
Advance(p, result, locals) ==
    procs' = [procs EXCEPT ![p] =
                IF result.ok
                THEN [locals EXCEPT !.pc = StepAfter(procs[p].pc),
                                    !.at = StepAfter(procs[p].pc)]
                ELSE [locals EXCEPT !.pc = "failed"]]

\* WorkspaceContext::load(root)
ConcLoad(p) ==
    LET result == WorkspaceContextLoad(fs, ConcRoot)
    IN /\ procs[p].pc = "load"
       /\ Advance(p, result,
                  [procs[p] EXCEPT !.ctx = IF result.ok THEN result.val ELSE @])
       /\ UNCHANGED <<toml, inventory, config, setting, fs, wctx, bctx, ret, calls>>

\* BuildContext::create up to the two saves: the build directory is made,
\* the Setting constructed, the Build and the Workspace built in memory
ConcPrepare(p) ==
    LET me == procs[p]
        made == PrepareDirectory(fs, me.path)
        f1 == IF made.ok THEN made.val ELSE fs
        s == ConstructSettings(config, me.ctx.workspace.project, me.input[1],
                               me.input[2], me.input[3], me.input[4])
        back == RelativePath(f1, me.path, me.ctx.workspace_root)
        forth == RelativePath(f1, me.ctx.workspace_root, me.path)
        result == IF ~made.ok THEN made ELSE IF ~s.ok THEN s
                  ELSE IF ~back.ok THEN back ELSE forth
    IN /\ me.pc = "prepare"
       /\ fs' = f1
       /\ Advance(p, result,
                  IF result.ok
                  THEN [me EXCEPT
                          !.build = Build(back.val, me.input[1], me.input[2],
                                          me.input[3], s.val),
                          !.workspace = WorkspaceWithBuild(me.ctx.workspace,
                                                           forth.val)]
                  ELSE me)
       /\ UNCHANGED <<toml, inventory, config, setting, wctx, bctx, ret, calls>>

\* toml_save(&build, ..): File::create
ConcOpenBuild(p) ==
    LET result == FileCreate(fs, procs[p].path, BUILD_FILENAME)
    IN /\ procs[p].pc = "open-build"
       /\ fs' = IF result.ok THEN result.val ELSE fs
       /\ Advance(p, result, procs[p])
       /\ UNCHANGED <<toml, inventory, config, setting, wctx, bctx, ret, calls>>

\* toml_save(&build, ..): toml::to_vec, then write when it succeeded; the
\* file is this invocation's alone and empty since its open, so the bytes
\* written are all it holds
ConcWriteBuild(p) ==
    LET data == SerializeBuild(toml, procs[p].build)
        result == IF ~data.ok THEN data
                  ELSE WriteFile(fs, procs[p].path, BUILD_FILENAME, data.val)
    IN /\ procs[p].pc = "write-build"
       /\ fs' = IF result.ok THEN result.val ELSE fs
       /\ Advance(p, result, procs[p])
       /\ UNCHANGED <<toml, inventory, config, setting, wctx, bctx, ret, calls>>

\* toml_save(&workspace, ..): File::create; the invocation holds the File
ConcOpenWorkspace(p) ==
    LET result == FileCreate(fs, procs[p].ctx.workspace_root, WORKSPACE_FILENAME)
    IN /\ procs[p].pc = "open-workspace"
       /\ fs' = IF result.ok THEN result.val ELSE fs
       /\ Advance(p, result,
                  [procs[p] EXCEPT !.file = Handle(procs[p].ctx.workspace_root,
                                                   WORKSPACE_FILENAME)])
       /\ UNCHANGED <<toml, inventory, config, setting, wctx, bctx, ret, calls>>

\* toml_save(&workspace, ..): toml::to_vec and write on the File held
ConcWriteWorkspace(p) ==
    LET result == WriteWorkspace(fs, procs[p].file,
                                 SerializeWorkspace(procs[p].workspace))
    IN /\ procs[p].pc = "write-workspace"
       /\ fs' = IF result.ok THEN result.val ELSE fs
       /\ Advance(p, result, procs[p])
       /\ UNCHANGED <<toml, inventory, config, setting, wctx, bctx, ret, calls>>

\* another program removes the Workspace marker while the invocations run:
\* every File open on it stays with the unlinked file
ConcUnlink ==
    LET result == Unlink(fs, ConcRoot, WORKSPACE_FILENAME)
    IN /\ result.ok
       /\ fs' = result.val
       /\ procs' = [p \in Procs |->
                      IF procs[p].file = NoContext THEN procs[p]
                      ELSE [procs[p] EXCEPT
                              !.file = Unlinked(@, ConcRoot, WORKSPACE_FILENAME)]]
       /\ UNCHANGED <<toml, inventory, config, setting, wctx, bctx, ret, calls>>

\* the invocation is stopped where it is (the process is killed)
ConcStop(p) ==
    /\ procs[p].pc \notin {"done", "failed", "stopped"}
    /\ procs' = [procs EXCEPT ![p].pc = "stopped"]
    /\ UNCHANGED <<toml, inventory, config, setting, fs, wctx, bctx, ret, calls>>

NextConc ==
    \/ ConcUnlink
    \/ \E p \in Procs :
        \/ ConcLoad(p)
        \/ ConcPrepare(p)
        \/ ConcOpenBuild(p)
        \/ ConcWriteBuild(p)
        \/ ConcOpenWorkspace(p)
        \/ ConcWriteWorkspace(p)
        \/ ConcStop(p)

SpecConc == InitConc /\ [][NextConc]_vars

\* the forward path the workspace records for an invocation's build
ForwardPath(p) == RelativePath(fs, ConcRoot, procs[p].path).val

\* the Build marker of an invocation is on disk as the invocation built it
BuildMarkerWritten(f, p) ==
    /\ IsDir(f, procs[p].path)
    /\ BUILD_FILENAME \in DOMAIN f[procs[p].path].files
    /\ Ok(BuildMarker(f, procs[p].path)) = SerializeBuild(toml, procs[p].build)

BetweenSaves(p) == procs[p].at \in {"open-workspace", "write-workspace"}

\* C15 as stated: while an invocation is between its two saves (and for
\* good when it is stopped there) its Build marker is on disk and the
\* Workspace marker does not list its forward path; and no step makes the
\* Workspace marker list a forward path whose Build marker is not yet on
\* disk.
C15_AsStated ==
    /\ [](\A p \in Procs :
            BetweenSaves(p) =>
                /\ BuildMarkerWritten(fs, p)
                /\ ForwardPath(p) \notin PersistedBuilds(fs, ConcRoot))
    /\ [][\A p \in Procs :
            (/\ procs[p].ctx # NoContext
             /\ Exists(fs, procs[p].path)
             /\ ForwardPath(p) \notin PersistedBuilds(fs, ConcRoot)
             /\ ForwardPath(p) \in PersistedBuilds(fs', ConcRoot))
            => BuildMarkerWritten(fs, p)]_vars

\* the forward path of an invocation was in the Workspace marker when the
\* invocation loaded it: the entry of a build that is gone
ListedBefore(p) == ForwardPath(p) \in procs[p].ctx.workspace.builds

\* C15: while an invocation is between its two saves (and for good when it
\* is stopped there) its Build marker is on disk, and the Workspace marker
\* lists its forward path only when it listed it before the create, as the
\* entry of a build that is gone; and no step makes the Workspace marker
\* list a forward path that is neither such an entry nor the path of a
\* Build marker on disk.
C15_BuildMarkerFirst ==
    /\ [](\A p \in Procs :
            BetweenSaves(p) =>
                /\ BuildMarkerWritten(fs, p)
                /\ ForwardPath(p) \in PersistedBuilds(fs, ConcRoot)
                      => ListedBefore(p))
    /\ [][\A p \in Procs :
            (/\ procs[p].ctx # NoContext
             /\ Exists(fs, procs[p].path)
             /\ ForwardPath(p) \notin PersistedBuilds(fs, ConcRoot)
             /\ ForwardPath(p) \in PersistedBuilds(fs', ConcRoot))
            => BuildMarkerWritten(fs, p) \/ ListedBefore(p)]_vars

\* an invocation was stopped between its saves: its Build marker is on
\* disk, unlisted, while another invocation ran to its end
C15_Witness ==
    \E p, q \in Procs :
        /\ procs[p].pc = "stopped"
        /\ procs[p].at = "open-workspace"
        /\ procs[q].pc = "done"
        /\ BuildMarkerWritten(fs, p)
        /\ ~ListedBefore(p)
        /\ PersistedBuilds(fs, ConcRoot) = {ForwardPath(q)}

----------------------------------------------------------------------------
(* SpecMatch: app.rs, Apps::machine_queue_match_system on the systems and  *)
(* pools the machine queue reports.                                        *)

\* the names of the inventory in the order of String's Ord
NameOrder == <<"", "a", "b", "poolA", "poolB", "z">>

SystemNames == {"a", "b"}

\* a pool may bear the name of a system
PoolNames == {"b", "poolA", "poolB"}

\* a pool may name a system the system report does not hold
MemberNames == {"a", "b", "z"}

\* a system's (PlatformId, Option<VariationId>)
SystemPlatforms ==
    {<<plat, var>> : plat \in {"plat1", "plat2"}, var \in {None, Some("var1")}}

\* BTreeMap<String, (PlatformId, Option<VariationId>)>
SystemMaps == UNION {[D -> SystemPlatforms] : D \in SUBSET SystemNames}

\* the member columns of a line of the pool report
MemberColumns == {<<>>, <<"a">>, <<"b">>, <<"z">>, <<"a", "b">>}

\* the number of lines in a pool report
MaxPools == 2

\* the pool-tsv report, trimmed: a sequence of lines, each the sequence of
\* its tab-separated columns (a pool name and its members)
PoolReports ==
    UNION {[1..n -> {<<name>> \o members :
                        name \in PoolNames, members \in MemberColumns}] :
           n \in 0..MaxPools}

\* str::split: splitting the empty string yields one empty piece, so an
\* empty report has one empty line and an empty line one empty column
SplitLines(report) == IF report = <<>> THEN <<<<>>>> ELSE report

SplitColumns(line) == IF line = <<>> THEN <<"">> ELSE line

\* the pools of the report's first n lines: each line inserts its first
\* column as the name with the other columns as the members, a later line
\* replacing an earlier pool of the same name
RECURSIVE PoolsOfLines(_, _)
PoolsOfLines(lines, n) ==
    IF n = 0 THEN EmptyMap
    ELSE LET before == PoolsOfLines(lines, n - 1)
             pool == SplitColumns(lines[n])
             name == Head(pool)
             members == {pool[k] : k \in 2..Len(pool)}
         IN [key \in DOMAIN before \cup {name} |->
                IF key = name THEN members ELSE before[key]]

\* Apps::machine_queue_pools on the report the machine queue prints
MachineQueuePools(report) ==
    PoolsOfLines(SplitLines(report), Len(SplitLines(report)))

Inventory(systems, pools) ==
    [available |-> TRUE, systems |-> systems, pools |-> pools]

\* the first loop: the names of the systems that match, in key order
RECURSIVE MatchingFrom(_, _, _, _)
MatchingFrom(systems, platform, variation, i) ==
    IF i > Len(NameOrder) THEN <<>>
    ELSE LET name == NameOrder[i]
         IN (IF /\ name \in DOMAIN systems
                /\ platform = systems[name][1]
                /\ (~variation.some \/ variation = systems[name][2])
             THEN <<name>> ELSE <<>>)
            \o MatchingFrom(systems, platform, variation, i + 1)

\* the second loop: every pool, in key order, whose members are all in
\* systems_set is inserted at the front of the list
RECURSIVE PoolsInsertedFrom(_, _, _, _)
PoolsInsertedFrom(pools, systems_set, list, i) ==
    IF i > Len(NameOrder) THEN list
    ELSE LET name == NameOrder[i]
         IN PoolsInsertedFrom(pools, systems_set,
                IF name \in DOMAIN pools /\ pools[name] \subseteq systems_set
                THEN <<name>> \o list ELSE list, i + 1)

\* the error of a match without candidates: "No matching system found for"
\* and the platform, with ":" and the variation when one was required
NoMatchingSystem(platform, variation) ==
    IF variation.some THEN <<"NoMatchingSystem", platform, ":", variation.val>>
    ELSE <<"NoMatchingSystem", platform>>

\* Apps::machine_queue_match_system with the pools put after the systems
MachineQueueMatchSystemPoolsLast(inv, platform, variation) ==
    IF ~inv.available THEN Err("NoMachineQueue")
    ELSE LET matching == MatchingFrom(inv.systems, platform, variation, 1)
             systems_set == {matching[k] : k \in 1..Len(matching)}
             front == PoolsInsertedFrom(inv.pools, systems_set, <<>>, 1)
             systems == matching \o front
         IN IF Len(systems) > 0 THEN Ok(systems)
            ELSE Err(NoMatchingSystem(platform, variation))

\* Apps::machine_queue_match_system
MachineQueueMatchSystem(inv, platform, variation) ==
    IF ~inv.available THEN Err("NoMachineQueue")
    ELSE LET matching == MatchingFrom(inv.systems, platform, variation, 1)
             systems_set == {matching[k] : k \in 1..Len(matching)}
             systems == PoolsInsertedFrom(inv.pools, systems_set, matching, 1)
         IN IF Len(systems) > 0 THEN Ok(systems)
            ELSE Err(NoMatchingSystem(platform, variation))

InitMatch ==
    /\ config = EmptyConfig
    /\ setting = EmptySetting
    /\ ret = NoCall
    /\ fs = EmptyMap /\ wctx = NoContext /\ bctx = NoContext /\ calls = 0
    /\ procs = <<>>
    /\ toml = "unsupported"
    /\ inventory \in {NoInventory} \cup
          {Inventory(systems, MachineQueuePools(report)) :
              systems \in SystemMaps, report \in PoolReports}

\* apps.machine_queue_match_system(&platform, variation)
CallMatchSystem(platform, variation) ==
    /\ ret' = [op |-> "machine_queue_match_system", platform |-> platform,
               variation |-> variation,
               result |-> MachineQueueMatchSystem(inventory, platform, variation)]
    /\ UNCHANGED <<toml, inventory, procs, config, setting, fs, wctx, bctx, calls>>

NextMatch ==
    \E platform \in {"plat1", "plat3"}, variation \in {None, Some("var1")} :
        CallMatchSystem(platform, variation)

SpecMatch == InitMatch /\ [][NextMatch]_vars

\* the systems of the inventory that match a request
Matches(inv, platform, variation) ==
    {name \in DOMAIN inv.systems :
        /\ inv.systems[name][1] = platform
        /\ variation = None \/ inv.systems[name][2] = variation}

\* C20: a successful machine_queue_match_system returns first the name of
\* every pool whose members all match and then the name of every matching
\* system, and nothing else; a system matches iff its platform is the
\* required one and no variation is required or its variation is the
\* required one.
C20_PoolsThenSystems ==
    (ret.op = "machine_queue_match_system" /\ ret.result.ok) =>
        LET list == ret.result.val
            matching == Matches(inventory, ret.platform, ret.variation)
            qualifying == {pool \in DOMAIN inventory.pools :
                              inventory.pools[pool] \subseteq matching}
            k == Cardinality(qualifying)
        IN /\ Len(list) = k + Cardinality(matching)
           /\ {list[i] : i \in 1..k} = qualifying
           /\ {list[i] : i \in (k + 1)..Len(list)} = matching

\* a pool that qualifies and one that does not, a system that matches and
\* one that does not
C20_Witness ==
    /\ ret.op = "machine_queue_match_system"
    /\ ret.result.ok
    /\ \E pool \in DOMAIN inventory.pools, other \in DOMAIN inventory.pools :
          /\ ret.result.val[1] = pool
          /\ inventory.pools[pool] # {}
          /\ \A i \in 1..Len(ret.result.val) : ret.result.val[i] # other
    /\ \E name \in DOMAIN inventory.systems :
          /\ ret.result.val[Len(ret.result.val)] = name
          /\ DOMAIN inventory.systems \ {ret.result.val[i] :
                                            i \in 1..Len(ret.result.val)} # {}

\* C21 as stated: when no system of the inventory matches the request,
\* machine_queue_match_system fails with the error that names the requested
\* platform (and variation), whatever pools the machine queue reports.
C21_NoMatchFails ==
    (/\ ret.op = "machine_queue_match_system"
     /\ inventory.available
     /\ Matches(inventory, ret.platform, ret.variation) = {})
    => ret.result = Err(NoMatchingSystem(ret.platform, ret.variation))

----------------------------------------------------------------------------
(* SpecRun: project.rs, Project::mq_run. The invocation is procs[1]; a     *)
(* step is the choice of the candidates or one external run, whose exit    *)
(* status the machine queue decides.                                       *)

\* the system a caller may name, and the outcomes of try_mq_run: the exit
\* status of the run, or an error before the run was started
ExplicitSystems == {None, Some("z")}

RunOutcomes == {"success", "failure", "error"}

\* `if result.success() { return Ok(()) }`
RunReturnsOnFailure(status) == status # "success"

RunReturns(status) == status = "success"

\* let systems = system.map(..).unwrap_or_else(|| match_system(..))?
\* with the matcher asked whether or not a system was named
CandidatesAlwaysMatched(inv, system, platform, variation) ==
    [consulted |-> TRUE,
     systems |-> MachineQueueMatchSystem(inv, platform, variation)]

Candidates(inv, system, platform, variation) ==
    IF system.some
    THEN [consulted |-> FALSE, systems |-> Ok(<<system.val>>)]
    ELSE [consulted |-> TRUE,
          systems |-> MachineQueueMatchSystem(inv, platform, variation)]

MqRun(pc, system, consulted, systems, runs) ==
    [pc |-> pc, system |-> system, consulted |-> consulted,
     systems |-> systems, runs |-> runs]

InitRun ==
    /\ config = EmptyConfig
    /\ setting = EmptySetting
    /\ ret = NoCall
    /\ fs = EmptyMap /\ wctx = NoContext /\ bctx = NoContext /\ calls = 0
    /\ toml = "unsupported"
    /\ inventory \in {NoInventory} \cup
          {Inventory(systems, MachineQueuePools(report)) :
              systems \in SystemMaps, report \in PoolReports}
    /\ \E system \in ExplicitSystems :
          procs = <<MqRun("start", system, FALSE, <<>>, <<>>)>>

\* mq_run up to its loop, for a build of (platform, variation)
MqRunBegin(platform, variation) ==
    LET found == Candidates(inventory, procs[1].system, platform, variation)
    IN /\ procs[1].pc = "start"
       /\ IF found.systems.ok
          THEN /\ procs' = <<MqRun("loop", procs[1].system, found.consulted,
                                   found.systems.val, <<>>)>>
               /\ ret' = ret
          ELSE /\ procs' = <<MqRun("returned", procs[1].system,
                                   found.consulted, <<>>, <<>>)>>
               /\ ret' = [op |-> "mq_run", platform |-> platform,
                          variation |-> variation, result |-> found.systems]
       /\ UNCHANGED <<toml, inventory, config, setting, fs, wctx, bctx, calls>>

\* one turn of the loop: try_mq_run on the next candidate; without a
\* machine queue it fails before the run
MqRunTry(outcome) ==
    LET me == procs[1]
        runs == Append(me.runs, <<me.systems[Len(me.runs) + 1], outcome>>)
    IN /\ me.pc = "loop"
       /\ Len(me.runs) < Len(me.systems)
       /\ ~inventory.available => outcome = "error"
       /\ IF outcome = "error"
          THEN /\ procs' = <<[me EXCEPT !.pc = "returned", !.runs = runs]>>
               /\ ret' = [op |-> "mq_run", result |-> Err("try_mq_run")]
          ELSE IF RunReturns(outcome)
          THEN /\ procs' = <<[me EXCEPT !.pc = "returned", !.runs = runs]>>
               /\ ret' = [op |-> "mq_run", result |-> Ok("unit")]
          ELSE /\ procs' = <<[me EXCEPT !.runs = runs]>>
               /\ ret' = ret
       /\ UNCHANGED <<toml, inventory, config, setting, fs, wctx, bctx, calls>>

\* the loop ran out of candidates
MqRunExhausted ==
    /\ procs[1].pc = "loop"
    /\ Len(procs[1].runs) = Len(procs[1].systems)
    /\ procs' = <<[procs[1] EXCEPT !.pc = "returned"]>>
    /\ ret' = [op |-> "mq_run", result |-> Err("Could not run on any available system")]
    /\ UNCHANGED <<toml, inventory, config, setting, fs, wctx, bctx, calls>>

NextRun ==
    \/ \E platform \in {"plat1", "plat3"}, variation \in {None, Some("var1")} :
          MqRunBegin(platform, variation)
    \/ \E outcome \in RunOutcomes : MqRunTry(outcome)
    \/ MqRunExhausted

SpecRun == InitRun /\ [][NextRun]_vars

\* C22: the runs of mq_run are runs on the candidates in their order, one
\* after another; a run is started only after every earlier run exited
\* unsuccessfully; mq_run returns Ok exactly when the last run exited
\* successfully, and its out-of-candidates error only when every candidate
\* was run and exited unsuccessfully; a system the caller names is the
\* only candidate and the matcher is not asked.
C22_RunsInOrder ==
    LET me == procs[1]
    IN /\ Len(me.runs) <= Len(me.systems)
       /\ \A i \in 1..Len(me.runs) : me.runs[i][1] = me.systems[i]
       /\ \A i \in 1..(Len(me.runs) - 1) : me.runs[i][2] = "failure"
       /\ (me.pc = "loop" /\ me.runs # <<>>) => me.runs[Len(me.runs)][2] = "failure"
       /\ (me.pc = "returned" /\ ret.result.ok) =>
              me.runs # <<>> /\ me.runs[Len(me.runs)][2] = "success"
       /\ (me.pc = "returned" /\ me.runs # <<>>
              /\ me.runs[Len(me.runs)][2] = "success") => ret.result.ok
       /\ (me.pc = "returned"
              /\ ret.result = Err("Could not run on any available system")) =>
              /\ Len(me.runs) = Len(me.systems)
              /\ \A i \in 1..Len(me.runs) : me.runs[i][2] = "failure"
       /\ (me.system.some /\ me.pc # "start") =>
              /\ ~me.consulted
              /\ me.pc = "loop" => me.systems = <<me.system.val>>

\* two candidates were run, the first exited unsuccessfully, the second
\* successfully, and a third candidate was never run
C22_Witness ==
    /\ procs[1].pc = "returned"
    /\ ret.result.ok
    /\ Len(procs[1].runs) = 2
    /\ Len(procs[1].systems) > 2
    /\ procs[1].runs[1][2] = "failure"

\* a named system was run and exited unsuccessfully: mq_run has failed
\* with the matcher never asked
C22_WitnessNamed ==
    /\ procs[1].system.some
    /\ procs[1].pc = "returned"
    /\ ~ret.result.ok
    /\ procs[1].runs = <<<<procs[1].system.val, "failure">>>>

----------------------------------------------------------------------------
(* SpecArch: platform.rs, Sel4Architecture. The `architectures` array of a *)
(* platform is deserialized token by token through TryFrom<String>; a      *)
(* variant is written through Into<String>.                                *)

MaxTokens == 2

Variants == {"AArch32", "AArch64", "RiscV32", "RiscV64", "Ia32", "X86_64"}

Tokens ==
    {"aarch32", "aarch64", "riscv32", "riscv64", "ia32", "x86_64",
     "arm_hyp", "amd64", "X64", "arm", "AArch32", ""}

TokenLists == UNION {[1..n -> Tokens] : n \in 0..MaxTokens}

\* Deserialize for BTreeSet<Sel4Architecture>: the first token that does
\* not parse fails the whole array
DeserializeArchitectures(tokens) ==
    IF \E i \in DOMAIN tokens : ~FromStr(tokens[i]).ok
    THEN Err("Parse")
    ELSE Ok({FromStr(tokens[i]).val : i \in DOMAIN tokens})

InitArch ==
    /\ config = EmptyConfig
    /\ setting = EmptySetting
    /\ ret = NoCall
    /\ NoStore

\* architectures: BTreeSet<Sel4Architecture> of a platform being loaded
CallDeserializeArchitectures(tokens) ==
    /\ ret' = [op |-> "deserialize", tokens |-> tokens,
               result |-> DeserializeArchitectures(tokens)]
    /\ UNCHANGED <<toml, inventory, procs, config, setting, fs, wctx, bctx, calls>>

\* Into<String> for Sel4Architecture, and the text read back
CallIntoString(arch) ==
    /\ ret' = [op |-> "into_string", arch |-> arch, string |-> Display(arch),
               result |-> FromStr(Display(arch))]
    /\ UNCHANGED <<toml, inventory, procs, config, setting, fs, wctx, bctx, calls>>

NextArch ==
    \/ \E tokens \in TokenLists : CallDeserializeArchitectures(tokens)
    \/ \E arch \in Variants : CallIntoString(arch)

SpecArch == InitArch /\ [][NextArch]_vars

\* the variant each token stands for according to the documented table
DocumentedVariant(string) ==
    CASE string = "aarch32" -> Some("AArch32")
      [] string = "arm_hyp" -> Some("AArch32")
      [] string = "aarch64" -> Some("AArch64")
      [] string = "riscv32" -> Some("RiscV32")
      [] string = "riscv64" -> Some("RiscV64")
      [] string = "ia32" -> Some("Ia32")
      [] string \in {"x86_64", "amd64", "X64"} -> Some("X86_64")
      [] OTHER -> None

\* C23 as stated: an array of tokens is read exactly when each token is
\* one of the six canonical tokens or of arm_hyp, amd64 and X64, each token
\* giving its documented architecture, and every other token is rejected
\* with a parse error; an architecture written as text and read back is
\* the same architecture.
C23_TokensAndAliases ==
    /\ ret.op = "deserialize" =>
          IF \A i \in DOMAIN ret.tokens : DocumentedVariant(ret.tokens[i]).some
          THEN ret.result =
                 Ok({DocumentedVariant(ret.tokens[i]).val : i \in DOMAIN ret.tokens})
          ELSE ret.result = Err("Parse")
    /\ ret.op = "into_string" => ret.result = Ok(ret.arch)

----------------------------------------------------------------------------
(* SpecBuild: the tool holds a loaded workspace, creates or loads builds   *)
(* in it, changes the Setting of the build it holds and configures it      *)
(* through Project::cmake (init_build, update_build).                      *)

InitBuild ==
    /\ config = StoreConfig
    /\ setting = EmptySetting
    /\ fs = EarlierWorkspace
    /\ wctx = WorkspaceContextLoad(EarlierWorkspace, <<"w">>).val
    /\ bctx = NoContext
    /\ ret = NoCall
    /\ calls = 0
    /\ procs = <<>>
    /\ toml \in TomlCrates
    /\ inventory = NoInventory

\* let mut command = self.cmake(context, apps, config)?
CallCmake(docker) ==
    LET out == ProjectCmake(fs, toml, config, bctx, docker)
    IN /\ calls < MaxCalls
       /\ bctx # NoContext
       /\ calls' = calls + 1
       /\ fs' = out.fs
       /\ ret' = [op |-> "Project::cmake", result |-> out.result]
       /\ UNCHANGED <<toml, inventory, procs, config, setting, wctx, bctx>>

NextBuild ==
    \/ \E input \in CreateInputs, path \in BuildPaths :
          CallBuildCreate(input, path)
    \/ \E path \in BuildPaths : CallBuildLoad(path)
    \/ \E s \in UpdateInputs : CallUpdateSetting(s)
    \/ \E s \in SettingMutInputs : CallSettingMut(s)
    \/ \E docker \in BOOLEAN : CallCmake(docker)

SpecBuild == InitBuild /\ [][NextBuild]_vars

\* C24 as stated: when BuildContext::create or Project::cmake has written
\* the Build marker of the build the tool holds, the Setting in the marker
\* is one that Config::check_setting accepts.
C24_ValidatedBeforePersisted ==
    (/\ ret.op \in {"BuildContext::create", "Project::cmake"}
     /\ ret.result.ok) =>
        (Ok(MarkerSetting(BuildMarker(fs, bctx.build_root)))
             = SerializeSetting(toml, bctx.build.setting)
         => CheckSetting(config, bctx.build.setting) = "Ok")

\* C28: a step of Project::cmake on a context whose Setting check_setting
\* rejects returns the error of check_setting and leaves the filesystem as
\* it was, building no command; on an accepted Setting the Build marker is
\* rewritten with the context's Build before the command is built, so when
\* the save went through the marker is current whether or not the command
\* could be built, and a command is returned only then.
C28_CheckSaveCommand ==
    [][(ret'.op = "Project::cmake" /\ calls' = calls + 1) =>
          LET checked == CheckSetting(config, bctx.build.setting)
          IN IF checked # "Ok"
             THEN ret'.result = Err(checked) /\ fs' = fs
             ELSE /\ (ret'.result.ok \/ ret'.result = Err("NoDocker")) =>
                       Ok(BuildMarker(fs', bctx.build_root)) =
                           SerializeBuild(toml, bctx.build)
                  /\ ret'.result.ok =>
                       ret'.result.val = <<"cmake">> \o CmakeArgs(config, bctx.build.setting)]_vars

\* Project::cmake has refused a context whose Setting is not the one in
\* its Build marker
C28_Witness ==
    /\ ret.op = "Project::cmake"
    /\ ret.result = Err(CheckSetting(config, bctx.build.setting))
    /\ CheckSetting(config, bctx.build.setting) # "Ok"
    /\ BUILD_FILENAME \in DOMAIN fs[bctx.build_root].files
    /\ \A lib \in TomlCrates :
          Ok(BuildMarker(fs, bctx.build_root)) # SerializeBuild(lib, bctx.build)

----------------------------------------------------------------------------
(* The platform flags of a resolved Setting (SpecResolve). *)

\* the Settings of the layers of a successful platform_setting call
OfPlatform(call) == config.platforms[call.platform].setting

OfVariation(call) ==
    config.platforms[call.platform].variations[call.variation.val].setting

OfArchitecture(call) ==
    IF call.arch \in DOMAIN config.architectures
    THEN config.architectures[call.arch] ELSE EmptySetting

OfProject(call) == config.projects[call.project].setting

PlatformFlags == {PLATFORM_FLAG, KERNEL_PLATFORM_FLAG}

\* the platform flag as the claim gives it
ClaimedPlatform(call) ==
    IF call.variation.some
    THEN (IF PLATFORM_FLAG \in DOMAIN OfVariation(call)
          THEN OfVariation(call)[PLATFORM_FLAG]
          ELSE Text(call.variation.val))
    ELSE (IF PLATFORM_FLAG \in DOMAIN OfPlatform(call)
          THEN OfPlatform(call)[PLATFORM_FLAG]
          ELSE Text(call.platform))

\* C25 as stated: with neither platform flag defined by the Settings of the
\* platform, the architecture and the project, the resolved kernel-platform
\* is the platform id, with or without a variation, and the resolved
\* platform is the platform id, or with a variation V the id of V unless
\* V's Setting defines platform; a platform defined by the platform's
\* Setting stands without a variation and gives way to V's id with one.
C25_AsStated ==
    (ret.op = "platform_setting" /\ ret.result.ok
        /\ PlatformFlags \cap (DOMAIN OfArchitecture(ret) \cup DOMAIN OfProject(ret)) = {}) =>
        /\ ret.result.val[PLATFORM_FLAG] = ClaimedPlatform(ret)
        /\ PlatformFlags \cap DOMAIN OfPlatform(ret) = {} =>
              ret.result.val[KERNEL_PLATFORM_FLAG] = Text(ret.platform)

\* C25: as above, with the resolved kernel-platform being the platform id
\* unless the Setting of the variation given defines kernel-platform, whose
\* value it then is.
C25_PlatformFlags ==
    (ret.op = "platform_setting" /\ ret.result.ok
        /\ PlatformFlags \cap (DOMAIN OfArchitecture(ret) \cup DOMAIN OfProject(ret)) = {}) =>
        /\ ret.result.val[PLATFORM_FLAG] = ClaimedPlatform(ret)
        /\ PlatformFlags \cap DOMAIN OfPlatform(ret) = {} =>
              ret.result.val[KERNEL_PLATFORM_FLAG] =
                 IF ret.variation.some
                      /\ KERNEL_PLATFORM_FLAG \in DOMAIN OfVariation(ret)
                 THEN OfVariation(ret)[KERNEL_PLATFORM_FLAG]
                 ELSE Text(ret.platform)

\* a variation was given for a platform whose Setting defines platform:
\* the resolved platform is the id of the variation, the resolved
\* kernel-platform the id of the platform
C25_Witness ==
    /\ ret.op = "platform_setting" /\ ret.result.ok
    /\ ret.variation.some
    /\ PlatformFlags \cap (DOMAIN OfArchitecture(ret) \cup DOMAIN OfProject(ret)) = {}
    /\ PLATFORM_FLAG \in DOMAIN OfPlatform(ret)
    /\ OfPlatform(ret)[PLATFORM_FLAG] # Text(ret.variation.val)
    /\ ret.result.val[PLATFORM_FLAG] = Text(ret.variation.val)
    /\ ret.result.val[KERNEL_PLATFORM_FLAG] = Text(ret.platform)

----------------------------------------------------------------------------
(* SpecOverride: config.rs, Config::merge. A base Config and an override   *)
(* document, each with at most the project j1 and the flag F.              *)

\* struct Project with all its fields (the repository, which no merge
\* reads or writes, is left out)
ProjectDef(source_directory, root_server, exit_phrase, command_line, s) ==
    [source_directory |-> source_directory, root_server |-> root_server,
     exit_phrase |-> exit_phrase, command_line |-> command_line, setting |-> s]

\* impl Merge for Project
MergeProject(self, other) ==
    [self EXCEPT !.command_line = MergeBTreeSet(@, other.command_line),
                 !.setting = MergeSetting(@, other.setting)]

\* impl Merge for Flag
MergeFlag(self, other) ==
    [self EXCEPT !.variable = MergeOption(@, other.variable),
                 !.requires = MergeBTreeSet(@, other.requires)]

\* impl Merge for Variation, impl Merge for Platform
MergeVariation(self, other) ==
    [self EXCEPT !.setting = MergeSetting(@, other.setting)]

MergeVariations(self, other) ==
    [k \in DOMAIN self \cup DOMAIN other |->
        IF k \in DOMAIN other
        THEN IF k \in DOMAIN self THEN MergeVariation(self[k], other[k])
             ELSE other[k]
        ELSE self[k]]

MergePlatform(self, other) ==
    [architectures |-> MergeBTreeSet(self.architectures, other.architectures),
     variations |-> MergeVariations(self.variations, other.variations),
     setting |-> MergeSetting(self.setting, other.setting)]

\* impl Merge for NamedMap<T> and for BTreeMap<K, T>, at each T of Config
MergeFlagMap(self, other) ==
    [k \in DOMAIN self \cup DOMAIN other |->
        IF k \in DOMAIN other
        THEN IF k \in DOMAIN self THEN MergeFlag(self[k], other[k]) ELSE other[k]
        ELSE self[k]]

MergePlatformMap(self, other) ==
    [k \in DOMAIN self \cup DOMAIN other |->
        IF k \in DOMAIN other
        THEN IF k \in DOMAIN self THEN MergePlatform(self[k], other[k])
             ELSE other[k]
        ELSE self[k]]

MergeArchitectureMap(self, other) ==
    [k \in DOMAIN self \cup DOMAIN other |->
        IF k \in DOMAIN other
        THEN IF k \in DOMAIN self THEN MergeSetting(self[k], other[k])
             ELSE other[k]
        ELSE self[k]]

MergeProjectMap(self, other) ==
    [k \in DOMAIN self \cup DOMAIN other |->
        IF k \in DOMAIN other
        THEN IF k \in DOMAIN self THEN MergeProject(self[k], other[k])
             ELSE other[k]
        ELSE self[k]]

\* impl Merge for Config
MergeConfig(self, other) ==
    [flags |-> MergeFlagMap(self.flags, other.flags),
     platforms |-> MergePlatformMap(self.platforms, other.platforms),
     architectures |-> MergeArchitectureMap(self.architectures, other.architectures),
     projects |-> MergeProjectMap(self.projects, other.projects)]

\* an optional field of a document: missing, or one of two texts
OptionalTexts == {None, Some("a"), Some("b")}

ProjectDefs ==
    {ProjectDef(d, r, e, c, EmptySetting) :
        d \in OptionalTexts, r \in OptionalTexts, e \in OptionalTexts,
        c \in {{}, {"mcs"}}}

FlagDefs ==
    {Flag(v, r) : v \in OptionalTexts,
                  r \in {{}, {("x" :> ReqSingle(Boolean(TRUE)))}}}

\* documents with the project j1 or without it, with the flag F or
\* without it
Documents ==
    {[EmptyConfig EXCEPT !.projects = j, !.flags = f] :
        j \in {EmptyMap} \cup {("j1" :> d) : d \in ProjectDefs},
        f \in {EmptyMap} \cup {("F" :> d) : d \in FlagDefs}}

InitOverride ==
    /\ config \in Documents
    /\ setting = EmptySetting
    /\ ret = NoCall
    /\ NoStore

\* config.merge(other), once, for the override document of a session
CallConfigMerge(other) ==
    /\ ret = NoCall
    /\ config' = MergeConfig(config, other)
    /\ ret' = [op |-> "Config::merge", self |-> config, other |-> other]
    /\ UNCHANGED <<toml, inventory, procs, setting, fs, wctx, bctx, calls>>

NextOverride == \E other \in Documents : CallConfigMerge(other)

SpecOverride == InitOverride /\ [][NextOverride]_vars

\* C26 as stated: after an override is merged over a base, a project both
\* define has in each of source-directory, root-server and exit-phrase the
\* override's value when the override supplies one and the base's value
\* otherwise, and a flag both define has the override's variable when the
\* override supplies one and the base's otherwise.
C26_OverrideWins ==
    ret.op = "Config::merge" =>
        /\ \A j \in DOMAIN ret.self.projects \cap DOMAIN ret.other.projects :
              /\ config.projects[j].source_directory =
                    MergeOption(ret.self.projects[j].source_directory,
                                ret.other.projects[j].source_directory)
              /\ config.projects[j].root_server =
                    MergeOption(ret.self.projects[j].root_server,
                                ret.other.projects[j].root_server)
              /\ config.projects[j].exit_phrase =
                    MergeOption(ret.self.projects[j].exit_phrase,
                                ret.other.projects[j].exit_phrase)
        /\ \A f \in DOMAIN ret.self.flags \cap DOMAIN ret.other.flags :
              config.flags[f].variable =
                 MergeOption(ret.self.flags[f].variable, ret.other.flags[f].variable)

----------------------------------------------------------------------------
(* A BuildContext::create that fails on its ids (Spec). *)

\* C29 as stated: a BuildContext::create on a path that did not exist,
\* failing because the Config does not know the platform, the variation or
\* the project, leaves the filesystem as it was before the call.
C29_FailedCreateLeavesNothing ==
    [][(/\ ret'.op = "BuildContext::create"
        /\ calls' = calls + 1
        /\ ~Exists(fs, ret'.path)
        /\ ~ret'.result.ok
        /\ ret'.result.err \in {"NoSuchPlatform", "NoSuchVariation", "NoSuchProject"})
       => fs' = fs]_vars

----------------------------------------------------------------------------
(* SpecSupported: Config::platform_setting called with each of the six     *)
(* architectures on Configs whose platform p1 supports any set of them.    *)

\* the Config of the store with the given supported set for p1 and the
\* given Setting for aarch64
ConfigSupporting(supported, sA) ==
    [StoreConfig EXCEPT !.platforms["p1"].architectures = supported,
                        !.architectures = ("aarch64" :> sA)]

\* a Config with the supported set of every platform replaced
WithSupported(cfg, supported) ==
    [cfg EXCEPT !.platforms =
        [p \in DOMAIN cfg.platforms |->
            [cfg.platforms[p] EXCEPT !.architectures = supported]]]

InitSupported ==
    /\ \E supported \in SUBSET Sel4Architectures, sA \in LayerSettings :
          config = ConfigSupporting(supported, sA)
    /\ setting = EmptySetting
    /\ ret = NoCall
    /\ NoStore

NextSupported ==
    \E project \in ProjectInputs, platform \in PlatformInputs,
       variation \in VariationInputs, arch \in Sel4Architectures :
        CallPlatformSetting(project, platform, variation, arch)

SpecSupported == InitSupported /\ [][NextSupported]_vars

\* C30: platform_setting succeeds whenever the Config knows the platform,
\* the variation (if one is given) and the project, whatever the
\* architecture and whether or not the platform lists it as supported, and
\* its result is the same for every supported set the platforms could
\* have.
C30_ArchitectureNeverFails ==
    ret.op = "platform_setting" =>
        /\ (/\ ret.platform \in DOMAIN config.platforms
            /\ ret.variation.some =>
                  ret.variation.val \in DOMAIN config.platforms[ret.platform].variations
            /\ ret.project \in DOMAIN config.projects) => ret.result.ok
        /\ \A supported \in SUBSET Sel4Architectures :
              PlatformSetting(WithSupported(config, supported), ret.project,
                              ret.platform, ret.variation, ret.arch) = ret.result

\* a resolution succeeded for an architecture the platform does not list,
\* and the Setting of that architecture is in the result
C30_Witness ==
    /\ ret.op = "platform_setting"
    /\ ret.result.ok
    /\ ret.arch \notin config.platforms[ret.platform].architectures
    /\ ret.arch \in DOMAIN config.architectures
    /\ \E f \in DOMAIN config.architectures[ret.arch] :
          ret.result.val[f] = config.architectures[ret.arch][f]

----------------------------------------------------------------------------
(* SpecFind: workspace.rs, find_context, one turn of its loop at a step,   *)
(* on the directory trees a user may call it in.                           *)

\* the number of turns of the loop that are followed
MaxTurns == 4

\* a build directory outside the workspace directory
OtherBuildMarker ==
    [WrittenBuildMarker EXCEPT ![1] = <<"workspace-root", DocString(<<"..", "w">>)>>]

\* a directory that holds the given marker files
MarkerDir(files) == [kind |-> "dir", files |-> files, subdirs |-> {}]

\* the trees: a Workspace marker in / or not; w absent, empty or the
\* workspace of an earlier session; in it b1 absent, empty, or a build
\* with its marker, with or without a Workspace marker of its own, and
\* with or without the directory images; b2 absent or empty; o absent,
\* empty, a build of the workspace, or holding a directory that bears the
\* name of the Build marker
FindFilesystems ==
    {[p \in Paths |->
        CASE p = <<>> -> root
          [] p = <<"o">> -> o
          [] p = <<"w">> -> w
          [] p = <<"w", "b2">> -> (IF w.kind = "dir" THEN b2 ELSE Absent)
          [] p = <<"w", "b1">> -> (IF w.kind = "dir" THEN b1 ELSE Absent)
          [] p = <<"w", "b1", "images">> ->
                (IF w.kind = "dir" /\ b1.kind = "dir" THEN images ELSE Absent)] :
        root \in {EmptyDir,
                  MarkerDir(WORKSPACE_FILENAME :> EarlierWorkspace[<<"w">>].files[WORKSPACE_FILENAME])},
        o \in {Absent, EmptyDir, MarkerDir(BUILD_FILENAME :> OtherBuildMarker),
               [EmptyDir EXCEPT !.subdirs = {BUILD_FILENAME}]},
        w \in {Absent, EmptyDir, EarlierWorkspace[<<"w">>]},
        b1 \in {Absent, EmptyDir, EarlierWorkspace[<<"w", "b1">>],
                MarkerDir((BUILD_FILENAME :> WrittenBuildMarker) @@
                          (WORKSPACE_FILENAME :>
                              SerializeWorkspace(Workspace("j1", {}))))},
        b2 \in {Absent, EmptyDir},
        images \in {Absent, EmptyDir}}

\* find_context has been called and is in its loop
InLoop == [ok |-> FALSE, err |-> "InLoop"]

InitFind ==
    /\ config = StoreConfig
    /\ setting = EmptySetting
    /\ fs \in FindFilesystems
    /\ wctx = NoContext
    /\ bctx = NoContext
    /\ ret = NoCall
    /\ calls = 0
    /\ procs = <<>>
    /\ toml = "unsupported"
    /\ inventory = NoInventory

\* let mut path = current_dir()?
FindBegin(cwd) ==
    /\ ret = NoCall
    /\ IsDir(fs, cwd)
    /\ ret' = [op |-> "find_context", cwd |-> cwd, path |-> cwd, turns |-> 0,
               result |-> InLoop]
    /\ UNCHANGED <<toml, inventory, procs, config, setting, fs, wctx, bctx, calls>>

\* the test of the loop and its body, once
FindTurn ==
    LET turn == FindContextTurn(fs, ret.cwd, ret.path)
    IN /\ ret.op = "find_context"
       /\ ret.result = InLoop
       /\ ret.turns < MaxTurns
       /\ ret' = IF turn.returns
                 THEN [ret EXCEPT !.turns = @ + 1, !.result = turn.result]
                 ELSE [ret EXCEPT !.turns = @ + 1, !.path = turn.path]
       /\ UNCHANGED <<toml, inventory, procs, config, setting, fs, wctx, bctx, calls>>

NextFind ==
    \/ \E cwd \in Paths : FindBegin(cwd)
    \/ FindTurn

SpecFind == InitFind /\ [][NextFind]_vars

\* C19 as stated: while find_context is in its loop the path it looks at
\* is one directory further up with every turn taken; and what it returns
\* is no context when no directory from the working directory upward holds
\* a marker, and otherwise the context of the closest directory that holds
\* one: the Build context rooted there when it holds a Build marker (alone
\* or with a Workspace marker), else the Workspace context rooted there.
C19_ClosestMarkerWins ==
    ret.op = "find_context" =>
        LET visited == {SubSeq(ret.cwd, 1, k) : k \in 1..Len(ret.cwd)}
            marked == {d \in visited :
                          \/ HoldsMarker(fs, d, BUILD_FILENAME)
                          \/ HoldsMarker(fs, d, WORKSPACE_FILENAME)}
        IN IF ret.result = InLoop
           THEN Len(ret.path) = Len(ret.cwd) - ret.turns
           ELSE IF marked = {} THEN ret.result = Ok(None)
           ELSE LET d == CHOOSE d \in marked : \A e \in marked : Len(e) <= Len(d)
                IN /\ ret.result.ok
                   /\ ret.result.val.some
                   /\ IF HoldsMarker(fs, d, BUILD_FILENAME)
                      THEN /\ ret.result.val.val.kind = "build"
                           /\ ret.result.val.val.build_root = d
                      ELSE /\ ret.result.val.val.kind = "workspace"
                           /\ ret.result.val.val.workspace_root = d

\* C27 as stated: when the closest directory above the working directory
\* that holds a marker is a proper ancestor holding a Build marker that
\* loads, and the Workspace marker in that build directory joined with the
\* Build's reverse path loads, find_context, once it has taken the turns
\* that lead from the working directory to that directory, has returned
\* the Build context of that directory paired with that workspace.
C27_BelowBuildDirectory ==
    ret.op = "find_context" =>
        LET visited == {SubSeq(ret.cwd, 1, k) : k \in 1..Len(ret.cwd)}
            marked == {d \in visited :
                          \/ HoldsMarker(fs, d, BUILD_FILENAME)
                          \/ HoldsMarker(fs, d, WORKSPACE_FILENAME)}
        IN \A d \in marked :
              (/\ \A e \in marked : Len(e) <= Len(d)
               /\ d # ret.cwd
               /\ ret.turns >= Len(ret.cwd) - Len(d) + 1
               /\ HoldsMarker(fs, d, BUILD_FILENAME)
               /\ DeserializeBuild(BuildMarker(fs, d)).ok) =>
                 LET build == DeserializeBuild(BuildMarker(fs, d)).val
                     root == ResolveDir(fs, d, build.workspace_root)
                 IN (/\ root.ok
                     /\ ReadFile(fs, root.val, WORKSPACE_FILENAME).ok
                     /\ DeserializeWorkspace(
                            ReadFile(fs, root.val, WORKSPACE_FILENAME).val).ok) =>
                        ret.result = Ok(Some(BuildContext(
                            WorkspaceContext(
                                DeserializeWorkspace(
                                    ReadFile(fs, root.val, WORKSPACE_FILENAME).val).val,
                                Join(d, build.workspace_root)),
                            build, d)))

====
